---- MODULE Spec2Model ----
(***************************************************************************)
(* Search layer of the moypolk-explorer dashboard: the highlighter, the    *)
(* query builder, the paginated search of the two search views             *)
(* (06_Поиск.py over the 50K sample, pages/07_Поиск_полный.py over the     *)
(* full corpus), the session bookmark store and the chunked store loader.  *)
(*                                                                         *)
(* A Python str is a sequence of one-character strings.  Markup that the   *)
(* code itself emits ("<mark>", "</mark>", "<br>", the <small> indicator)  *)
(* is one multi-character element of the output sequence.                  *)
(***************************************************************************)
EXTENDS Integers, Sequences, FiniteSets, TLC

VARIABLES
    hlText,     \* highlight: the argument text
    hlQuery,    \* highlight: the argument query (a str, or None)
    hlMax,      \* highlight: the argument max_chars
    hlOut,      \* highlight: the returned markup
    hlPc,       \* "call" before highlight ran on the arguments, "ret" after
    qbView,     \* query building: "sample" (06_Поиск.py) or "full" (07_Поиск_полный.py)
    qbQuery,    \* query building: query_text
    qbRegion,   \* query building: selected_region
    qbRank,     \* query building: selected_rank
    qbFrom,     \* query building: year_from
    qbTo,       \* query building: year_to
    qbWhere,    \* query building: where_clause, a sequence of AND-ed conditions
    qbPc,       \* "input" before the conditions are built, "built" after
    view,       \* the page of the session: "sample" (06_Поиск.py) or "full"
    table,      \* the table the page queries (soldiers / soldiers_full)
    bookmarks,  \* st.session_state.bookmarks: card id -> snapshot
    full_search_page,   \* st.session_state.full_search_page
    search_page,        \* st.session_state.search_page
    query_text,         \* the search box
    selected_region,    \* the region selectbox
    selected_rank,      \* the rank selectbox
    year_from,          \* "Год рождения от"
    year_to,            \* "до"
    rerun,      \* a script run is pending (page load, st.rerun())
    outcome,    \* what is on screen: "none", "help", "results", "zero", "error"
    total,      \* on screen: the number found
    page,       \* on screen: the page index the offset was computed from
    results,    \* on screen: the ids of the cards, in order
    where,      \* the where_clause of the run that rendered the screen
    failed,     \* the queries the engine failed on in that run
    pgView,     \* page walk: the view
    pgTable,    \* page walk: the table
    pgWhere,    \* page walk: the where_clause
    pgTotal,    \* page walk: total, the result of the count query
    pgIndex,    \* page walk: the next page index to fetch
    pgSum,      \* page walk: the number of rows fetched so far
    pgPc,       \* page walk: "count", "fetch" or "done"
    ldCorpus,   \* loader: the rows that make_fts_index wrote
    ldChunks,   \* loader: the files soldiers_fts_part*.parquet, in name order
    ldLegacy,   \* loader: the file soldiers_fts.parquet, or Absent
    ldCache,    \* loader: what st.cache_resource holds for the loader
    ldCon,      \* loader: the table of the connection the last call returned
    ldReads,    \* loader: how often the files were read
    ldCalls,    \* loader: the number of calls so far
    ldSample,       \* loader: the file soldiers_sample_50k.parquet, or Absent
    ldSampleCache,  \* loader: what st.cache_resource holds for get_duckdb_connection
    ldSampleCon,    \* loader: the table of the connection its last call returned
    ldSampleReads,  \* loader: how often the sample file was read
    ldSampleCalls,  \* loader: the number of calls of get_duckdb_connection
    ldView,         \* the view whose run started last, "none" before any
    ldSource,       \* the store the last run of a view selected
    ldQueried,      \* whether that run went on to its filter and search queries
    exCards,    \* export: bookmarks.values(), the snapshots in mapping order
    exQuery,    \* export: search_query
    exOut,      \* export: the document returned
    exPc,       \* export: "call" or "ret"
    cnStory,    \* classifier: the story text, as its length and the phrases it holds
    cnBattles,  \* classifier: the battles column of the record, or Null
    cnOnDemand, \* classifier: the label of the full view, "unset" before the call
    cnBatch,    \* classifier: the label of the batch job, "unset" before the call
    ixFrame,    \* index: the data frame given to make_fts_index, as runs of cards
    ixWithText, \* index: the filtered frame, as pieces of the frame's runs
    ixDir,      \* index: the files of data/full
    ixChunk,    \* index: the number of the next chunk to write
    ixPc        \* index: "idle", "filter", "remove", "write" or "done"

hlVars == <<hlText, hlQuery, hlMax, hlOut, hlPc>>

qbVars == <<qbView, qbQuery, qbRegion, qbRank, qbFrom, qbTo, qbWhere, qbPc>>

sessionVars ==
    <<view, table, bookmarks, full_search_page, search_page, query_text,
      selected_region, selected_rank, year_from, year_to, rerun, outcome, total,
      page, results, where, failed>>

pageVars == <<pgView, pgTable, pgWhere, pgTotal, pgIndex, pgSum, pgPc>>

loadVars ==
    <<ldCorpus, ldChunks, ldLegacy, ldCache, ldCon, ldReads, ldCalls, ldSample,
      ldSampleCache, ldSampleCon, ldSampleReads, ldSampleCalls, ldView, ldSource,
      ldQueried>>

exportVars == <<exCards, exQuery, exOut, exPc>>

classifyVars == <<cnStory, cnBattles, cnOnDemand, cnBatch>>

indexVars == <<ixFrame, ixWithText, ixDir, ixChunk, ixPc>>

vars == <<hlVars, qbVars, sessionVars, pageVars, loadVars, exportVars, classifyVars, indexVars>>

----------------------------------------------------------------------------
(* Bounds of the model *)

MaxTextLen == 3
MaxTermLen == 2
\* longest region / rank name offered by a selectbox in the query-building runs
MaxNameLen == 2
\* rows of a kind in a table of the session runs
RowsPerKind == 13
\* the user bookmarks among this many first cards of a page
BookmarkPick == 1
\* and keeps at most this many bookmarks
MaxBookmarks == 1
\* rows of a kind in a table too big for the reachable pages
PagesBigRows == 1201
\* rows of a corpus that is split into chunk files
MaxCorpusRows == 3
\* calls of a loader in one process
MaxLoaderCalls == 2
\* characters of the excerpt of an exported snapshot
MaxExcerptLen == 2
\* bookmarks in an exported mapping
MaxExportCards == 2

----------------------------------------------------------------------------
(* Strings *)

Min(a, b) == IF a < b THEN a ELSE b
Max(a, b) == IF a > b THEN a ELSE b

\* Python's None, for an Optional[str] argument.
None == <<"None">>

\* Characters of record texts: a letter in both cases, a regex metacharacter,
\* a blank, a newline and a markup character.
TextAlphabet == {"a", "A", ".", " ", "\n", "<"}
\* Characters of a search term typed into the one-line st.text_input.
TermAlphabet == {"a", "A", ".", " ", "<"}

StringsUpTo(alphabet, n) == UNION {[1..k -> alphabet] : k \in 0..n}

\* str.lower() / the case folding of re.IGNORECASE, per character.
Lower(c) == IF c = "A" THEN "a" ELSE c

IsSpace(c) == c \in {" ", "\n"}

IsAlnum(c) == c \in {"a", "A"}

\* s[:n] for n >= 0
Prefix(s, n) == SubSeq(s, 1, Min(n, Len(s)))

\* str.strip()
RECURSIVE LStrip(_)
LStrip(s) == IF s # <<>> /\ IsSpace(Head(s)) THEN LStrip(Tail(s)) ELSE s

RECURSIVE RStrip(_)
RStrip(s) ==
    IF s # <<>> /\ IsSpace(s[Len(s)]) THEN RStrip(SubSeq(s, 1, Len(s) - 1)) ELSE s

Strip(s) == RStrip(LStrip(s))

\* Python truthiness of an Optional[str]: None and "" are falsy.
Truthy(s) == s # None /\ s # <<>>

----------------------------------------------------------------------------
(* re.escape, and the part of the re pattern language a term can reach *)

\* re.escape(s): every character that is special in a pattern gets a backslash.
RECURSIVE ReEscape(_)
ReEscape(s) ==
    IF s = <<>> THEN <<>>
    ELSE (IF IsAlnum(Head(s)) THEN <<Head(s)>> ELSE <<"\\", Head(s)>>)
         \o ReEscape(Tail(s))

\* Compile the inside of the capture group "(...)": a backslash makes the next
\* character a literal, an unescaped "." is the any-character atom (it does
\* not match a newline), any other character is a literal.
RECURSIVE ReCompile(_)
ReCompile(p) ==
    IF p = <<>> THEN <<>>
    ELSE IF Head(p) = "\\" /\ Len(p) >= 2
         THEN <<[kind |-> "lit", ch |-> p[2]]>> \o ReCompile(SubSeq(p, 3, Len(p)))
    ELSE IF Head(p) = "."
         THEN <<[kind |-> "any", ch |-> "."]>> \o ReCompile(Tail(p))
    ELSE <<[kind |-> "lit", ch |-> Head(p)]>> \o ReCompile(Tail(p))

AtomMatches(atom, c) ==
    IF atom.kind = "any" THEN c # "\n" ELSE Lower(atom.ch) = Lower(c)

\* The compiled pattern matches s at index i (1-based), flags=re.IGNORECASE.
MatchAt(atoms, s, i) ==
    /\ i + Len(atoms) - 1 <= Len(s)
    /\ \A k \in 1..Len(atoms) : AtomMatches(atoms[k], s[i + k - 1])

\* re.sub(f"({pattern})", r"<mark>\1</mark>", s, flags=re.IGNORECASE): scan
\* from the left; a match is replaced and the scan resumes behind it, so
\* matches never overlap.  An empty pattern matches before every character
\* and at the end.
RECURSIVE ReSubMark(_, _, _)
ReSubMark(atoms, s, i) ==
    IF i > Len(s)
    THEN (IF atoms = <<>> THEN <<"<mark>", "</mark>">> ELSE <<>>)
    ELSE IF atoms = <<>>
         THEN <<"<mark>", "</mark>", s[i]>> \o ReSubMark(atoms, s, i + 1)
    ELSE IF MatchAt(atoms, s, i)
         THEN <<"<mark>">> \o SubSeq(s, i, i + Len(atoms) - 1) \o <<"</mark>">>
              \o ReSubMark(atoms, s, i + Len(atoms))
    ELSE <<s[i]>> \o ReSubMark(atoms, s, i + 1)

\* str.replace("\n", "<br>")
RECURSIVE ReplaceNewlines(_)
ReplaceNewlines(s) ==
    IF s = <<>> THEN <<>>
    ELSE <<IF Head(s) = "\n" THEN "<br>" ELSE Head(s)>> \o ReplaceNewlines(Tail(s))

----------------------------------------------------------------------------
(* highlight(text, query, max_chars) *)

\* Mutant of Suffix: the indicator is also appended when the text is exactly
\* max_chars long.
Suffix_AtBoundary(text, max_chars) ==
    IF Len(text) >= max_chars
    THEN <<"<br>", "<small>", "...pokazano ", ToString(max_chars), " iz ",
           ToString(Len(text)), " simvolov", "</small>">>
    ELSE <<>>

\* The "shown N of M characters" indicator.
Suffix(text, max_chars) ==
    IF Len(text) > max_chars
    THEN <<"<br>", "<small>", "...pokazano ", ToString(max_chars), " iz ",
           ToString(Len(text)), " simvolov", "</small>">>
    ELSE <<>>

\* Mutant of QueryIsBlank: only `if not query`, the whitespace test forgotten.
QueryIsBlank_NoStripTest(query) == ~Truthy(query)

\* `if not query or not query.strip()`
QueryIsBlank(query) == ~Truthy(query) \/ ~Truthy(Strip(query))

\* Mutant of HighlightPattern: the term used as a pattern without re.escape.
HighlightPattern_NoEscape(query) == Strip(query)

\* The pattern handed to re.sub for a query.
HighlightPattern(query) == ReEscape(Strip(query))

\* Mutant of highlight: the marks are placed in the whole text, the truncation
\* to max_chars is forgotten on the marking path.
highlight_MarkWholeText(text, query, max_chars) ==
    LET snippet == Prefix(text, max_chars)
        suffix == Suffix(text, max_chars)
    IN  IF QueryIsBlank(query)
        THEN ReplaceNewlines(snippet) \o suffix
        ELSE LET escaped == HighlightPattern(query)
                 highlighted == ReSubMark(ReCompile(escaped), text, 1)
             IN  ReplaceNewlines(highlighted) \o suffix

highlight(text, query, max_chars) ==
    LET snippet == Prefix(text, max_chars)
        suffix == Suffix(text, max_chars)
    IN  IF QueryIsBlank(query)
        THEN ReplaceNewlines(snippet) \o suffix
        ELSE LET escaped == HighlightPattern(query)
                 highlighted == ReSubMark(ReCompile(escaped), snippet, 1)
             IN  ReplaceNewlines(highlighted) \o suffix

----------------------------------------------------------------------------
(* Query building of the two search views *)

\* The selectbox sentinels "Все регионы" and "Все звания" (transliterated).
AllRegions == <<"Vse regiony">>
AllRanks == <<"Vse zvaniya">>

\* The limits of both number_input widgets and of the year test.
YearMin == 1850
YearMax == 1940

\* s.replace("'", "''")
RECURSIVE SqlEscape(_)
SqlEscape(s) ==
    IF s = <<>> THEN <<>>
    ELSE (IF Head(s) = "'" THEN <<"'", "'">> ELSE <<Head(s)>>) \o SqlEscape(Tail(s))

\* One condition of the WHERE clause.  lit is the text the f-string puts
\* between the two quotes of a string literal, src the widget value it was
\* made from; from / to are the numbers of the BETWEEN.
\*   "ilike"  (fio ILIKE '<lit>' OR story ILIKE '<lit>')
\*   "region" region = '<lit>'
\*   "rank"   rank = '<lit>'
\*   "year"   TRY_CAST(REGEXP_EXTRACT(birthday, '(\d{4})', 1) AS INTEGER)
\*            BETWEEN from AND to
\*   "true"   TRUE
\*   "story"  story IS NOT NULL
Cond(kind, lit, src, from, to) ==
    [kind |-> kind, lit |-> lit, src |-> src, from |-> from, to |-> to]

HasLiteral(c) == c.kind \in {"ilike", "region", "rank"}

\* What each view interpolates for the region and for the rank: the full view
\* doubles the quotes (safe_r, safe_rk), the sample view interpolates the
\* selectbox value as it is.
RegionLiteral(vw, sel_region) ==
    IF vw = "full" THEN SqlEscape(sel_region) ELSE sel_region

RankLiteral(vw, sel_rank) ==
    IF vw = "full" THEN SqlEscape(sel_rank) ELSE sel_rank

\* Mutant of YearFilterActive: the condition is added only when both ends are
\* inside the span.
YearFilterActive_BothEnds(y_from, y_to) == y_from > YearMin /\ y_to < YearMax

\* `if year_from > 1850 or year_to < 1940`
YearFilterActive(y_from, y_to) == y_from > YearMin \/ y_to < YearMax

\* The list `conditions` after the four tests.
conditions(vw, q_text, sel_region, sel_rank, y_from, y_to) ==
    (IF Truthy(Strip(q_text))
     THEN <<Cond("ilike", <<"%">> \o SqlEscape(Strip(q_text)) \o <<"%">>,
                 <<"%">> \o Strip(q_text) \o <<"%">>, 0, 0)>>
     ELSE <<>>)
    \o (IF sel_region # AllRegions
        THEN <<Cond("region", RegionLiteral(vw, sel_region), sel_region, 0, 0)>>
        ELSE <<>>)
    \o (IF sel_rank # AllRanks
        THEN <<Cond("rank", RankLiteral(vw, sel_rank), sel_rank, 0, 0)>>
        ELSE <<>>)
    \o (IF YearFilterActive(y_from, y_to)
        THEN <<Cond("year", <<>>, <<>>, y_from, y_to)>>
        ELSE <<>>)

\* Mutant of where_clause: TRUE is the default of both views.
where_clause_TrueDefault(vw, q_text, sel_region, sel_rank, y_from, y_to) ==
    LET conds == conditions(vw, q_text, sel_region, sel_rank,
                            y_from, y_to)
    IN  IF conds # <<>> THEN conds
        ELSE <<Cond("true", <<>>, <<>>, 0, 0)>>

\* `" AND ".join(conditions) if conditions else <the view's default>`
where_clause(vw, q_text, sel_region, sel_rank, y_from, y_to) ==
    LET conds == conditions(vw, q_text, sel_region, sel_rank,
                            y_from, y_to)
    IN  IF conds # <<>> THEN conds
        ELSE IF vw = "full" THEN <<Cond("story", <<>>, <<>>, 0, 0)>>
        ELSE <<Cond("true", <<>>, <<>>, 0, 0)>>

----------------------------------------------------------------------------
(* The query engine (DuckDB) on the statements the views send *)

\* SQL NULL in a column.
Null == <<"NULL">>

\* The engine reads a string literal from the character after the opening
\* quote: '' is one quote character of the value, a single ' ends the
\* literal.  lit is what the view put before its own closing quote: the
\* literal is the one the view meant only when the scan reaches the end of
\* lit inside the literal.
RECURSIVE LexLiteral(_, _, _)
LexLiteral(lit, i, acc) ==
    IF i > Len(lit) THEN [ok |-> TRUE, value |-> acc]
    ELSE IF lit[i] = "'"
         THEN IF i + 1 <= Len(lit) /\ lit[i + 1] = "'"
              THEN LexLiteral(lit, i + 2, Append(acc, "'"))
              ELSE [ok |-> FALSE, value |-> acc]
    ELSE LexLiteral(lit, i + 1, Append(acc, lit[i]))

SqlLiteral(lit) == LexLiteral(lit, 1, <<>>)

\* The statement parses: every literal of the clause is closed where the view
\* closed it.  Otherwise the rest of the value is read as query text and
\* con.execute raises.
Parses(wh) ==
    \A k \in 1..Len(wh) : HasLiteral(wh[k]) => SqlLiteral(wh[k].lit).ok

\* s ILIKE pat: % is any run of characters, _ any one character, every other
\* character itself, letter case ignored.
RECURSIVE LikeAt(_, _, _, _)
LikeAt(pat, i, s, j) ==
    IF i > Len(pat) THEN j > Len(s)
    ELSE IF pat[i] = "%"
         THEN \E k \in j..(Len(s) + 1) : LikeAt(pat, i + 1, s, k)
    ELSE IF j > Len(s) THEN FALSE
    ELSE IF pat[i] = "_" THEN LikeAt(pat, i + 1, s, j + 1)
    ELSE Lower(pat[i]) = Lower(s[j]) /\ LikeAt(pat, i + 1, s, j + 1)

ILike(s, pat) == s # Null /\ LikeAt(pat, 1, s, 1)

IsDigit(c) == c \in {"0", "1", "2", "3", "4", "5", "6", "7", "8", "9"}

DigitValue(c) ==
    CASE c = "0" -> 0 [] c = "1" -> 1 [] c = "2" -> 2 [] c = "3" -> 3 [] c = "4" -> 4
      [] c = "5" -> 5 [] c = "6" -> 6 [] c = "7" -> 7 [] c = "8" -> 8 [] OTHER -> 9

\* TRY_CAST(REGEXP_EXTRACT(birthday, '(\d{4})', 1) AS INTEGER): the number
\* of the first four digits in a row, -1 for SQL NULL (no such run, or a
\* NULL birthday).
BirthYear(birthday) ==
    LET starts == {i \in 1..(Len(birthday) - 3) :
                      \A k \in 0..3 : IsDigit(birthday[i + k])}
    IN  IF birthday = Null \/ starts = {} THEN -1
        ELSE LET i == CHOOSE x \in starts : \A y \in starts : x <= y
             IN  DigitValue(birthday[i]) * 1000 + DigitValue(birthday[i + 1]) * 100
                 + DigitValue(birthday[i + 2]) * 10 + DigitValue(birthday[i + 3])

\* One condition on one row; a NULL result does not select the row.
CondHolds(c, row) ==
    CASE c.kind = "ilike" ->
            LET pat == SqlLiteral(c.lit).value
            IN  ILike(row.fio, pat) \/ ILike(row.story, pat)
      [] c.kind = "region" -> row.region # Null /\ row.region = SqlLiteral(c.lit).value
      [] c.kind = "rank" -> row.rank # Null /\ row.rank = SqlLiteral(c.lit).value
      [] c.kind = "year" ->
            LET y == BirthYear(row.birthday)
            IN  y # -1 /\ c.from <= y /\ y <= c.to
      [] c.kind = "story" -> row.story # Null
      [] OTHER -> TRUE

RowMatches(wh, row) == \A k \in 1..Len(wh) : CondHolds(wh[k], row)

----------------------------------------------------------------------------
(* The tbl behind a search vw *)

\* The rows of a table fall into kinds: rows of one kind agree in every
\* column but id.  A table is the number of rows it holds of each kind, and
\* the row <<k, j>> is the j-th row of kind k (its id).
KindRow ==
    << [fio |-> <<"a", "b">>, region |-> <<"r">>, rank |-> <<"k">>,
        birthday |-> <<"1", "9", "2", "1">>, story |-> <<"a", "\n", "b">>,
        url |-> <<"u">>],
       [fio |-> <<"a", "b">>, region |-> <<"r", "'">>, rank |-> Null,
        birthday |-> <<"x">>, story |-> Null, url |-> Null],
       [fio |-> <<"b">>, region |-> Null, rank |-> <<"k">>,
        birthday |-> <<"0", "5", ".", "1", "8", "9", "9">>, story |-> <<"b", "b">>,
        url |-> <<"u">>] >>

NKinds == Len(KindRow)

RowOf(id) == KindRow[id[1]]

\* Byte order of the characters that occur in names.
CharCode(c) ==
    CASE c = "'" -> 39 [] c = "A" -> 65 [] c = "a" -> 97 [] c = "b" -> 98
      [] c = "k" -> 107 [] c = "r" -> 114 [] OTHER -> 120

\* a < b in the engine's default (binary) collation.
RECURSIVE StrLess(_, _)
StrLess(a, b) ==
    IF b = <<>> THEN FALSE
    ELSE IF a = <<>> THEN TRUE
    ELSE IF CharCode(Head(a)) # CharCode(Head(b)) THEN CharCode(Head(a)) < CharCode(Head(b))
    ELSE StrLess(Tail(a), Tail(b))

\* ORDER BY fio (ascending, NULLS LAST): fio x sorts strictly before fio y.
FioBefore(x, y) == x # Null /\ (y = Null \/ StrLess(x, y))

\* The kinds that hold a row selected by the clause.
MatchingKinds(tbl, wh) ==
    {k \in 1..NKinds : tbl[k] > 0 /\ RowMatches(wh, KindRow[k])}

RECURSIVE SumCounts(_, _)
SumCounts(tbl, ks) ==
    IF ks = {} THEN 0
    ELSE LET k == CHOOSE x \in ks : TRUE
         IN  tbl[k] + SumCounts(tbl, ks \ {k})

\* Mutant of CountQuery: the total is taken from the rows of a first page of
\* 12 rows.
CountQuery_FromFirstPage(tbl, wh) ==
    Min(SumCounts(tbl, MatchingKinds(tbl, wh)), 12)

\* SELECT COUNT(*) FROM <table> WHERE <where>
CountQuery(tbl, wh) == SumCounts(tbl, MatchingKinds(tbl, wh))

\* ORDER BY fio leaves the order of rows with equal fio to the engine.  tie
\* is the order the engine happens to produce among them in one execution:
\* "asc" by <<k, j>> ascending, "desc" by <<k, j>> descending.
TieOrders == {"asc", "desc"}

\* Kind x is put before kind y in the result.
KindBefore(x, y, tie) ==
    \/ FioBefore(KindRow[x].fio, KindRow[y].fio)
    \/ /\ ~FioBefore(KindRow[y].fio, KindRow[x].fio)
       /\ IF tie = "asc" THEN x < y ELSE x > y

\* The matching kinds in result order.
RECURSIVE KindSeq(_, _)
KindSeq(ks, tie) ==
    IF ks = {} THEN <<>>
    ELSE LET k == CHOOSE x \in ks : \A y \in ks \ {x} : KindBefore(x, y, tie)
         IN  <<k>> \o KindSeq(ks \ {k}, tie)

\* The row at position pos (1-based) of the ordered result.
RECURSIVE RowAt(_, _, _, _)
RowAt(tbl, kseq, tie, pos) ==
    LET k == Head(kseq)
    IN  IF pos <= tbl[k]
        THEN <<k, IF tie = "asc" THEN pos ELSE tbl[k] + 1 - pos>>
        ELSE RowAt(tbl, Tail(kseq), tie, pos - tbl[k])

\* Mutant of PageQuery: the OFFSET is ignored, every page is the first one.
PageQuery_IgnoresOffset(tbl, wh, limit, offset, tie) ==
    LET ks == MatchingKinds(tbl, wh)
        n == SumCounts(tbl, ks)
        kseq == KindSeq(ks, tie)
        cnt == Max(0, Min(limit, n))
    IN  [i \in 1..cnt |-> RowAt(tbl, kseq, tie, i)]

\* SELECT ... FROM <table> WHERE <where> ORDER BY fio LIMIT <limit> OFFSET <offset>
PageQuery(tbl, wh, limit, offset, tie) ==
    LET ks == MatchingKinds(tbl, wh)
        n == SumCounts(tbl, ks)
        kseq == KindSeq(ks, tie)
        cnt == Max(0, Min(limit, n - offset))
    IN  [i \in 1..cnt |-> RowAt(tbl, kseq, tie, offset + i)]

\* SELECT DISTINCT region FROM <table> WHERE region IS NOT NULL
RegionsOf(tbl) ==
    {KindRow[k].region : k \in {x \in 1..NKinds : tbl[x] > 0 /\ KindRow[x].region # Null}}

\* SELECT rank, COUNT(*) ... WHERE rank IS NOT NULL GROUP BY rank ... LIMIT 30
RanksOf(tbl) ==
    {KindRow[k].rank : k \in {x \in 1..NKinds : tbl[x] > 0 /\ KindRow[x].rank # Null}}

----------------------------------------------------------------------------
(* Pagination arithmetic of the two views *)

PAGE_SIZE_FULL == 12
PAGE_SIZE_SAMPLE == 20
\* the ceiling on the number of reachable pages
MAX_PAGES_FULL == 100
MAX_PAGES_SAMPLE == 50

PAGE_SIZE(vw) == IF vw = "full" THEN PAGE_SIZE_FULL ELSE PAGE_SIZE_SAMPLE

MaxPagesCap(vw) == IF vw = "full" THEN MAX_PAGES_FULL ELSE MAX_PAGES_SAMPLE

\* Mutant of total_pages: the division rounds down.
total_pages_RoundedDown(vw, tot) == Max(1, tot \div PAGE_SIZE(vw))

\* total_pages = max(1, (total + PAGE_SIZE - 1) // PAGE_SIZE)
total_pages(vw, tot) == Max(1, (tot + PAGE_SIZE(vw) - 1) \div PAGE_SIZE(vw))

\* max_pages = min(total_pages, 100)   (50 in the sample view)
max_pages(vw, tot) == Min(total_pages(vw, tot), MaxPagesCap(vw))

----------------------------------------------------------------------------
(* One script run of a search view *)

\* story_excerpt keeps this many characters of the story.
EXCERPT_CHARS == 400

OrEmpty(v) == IF v = Null THEN <<>> ELSE v

\* The snapshot stored under a card id by the bookmark button.
Snapshot(row) ==
    [fio |-> IF row.fio = Null \/ row.fio = <<>> THEN <<"FIO ne ukazano">> ELSE row.fio,
     region |-> OrEmpty(row.region),
     rank |-> OrEmpty(row.rank),
     url |-> OrEmpty(row.url),
     story_excerpt |-> Prefix(OrEmpty(row.story), EXCERPT_CHARS)]

\* st.session_state.bookmarks = {}
NoBookmarks == [id \in {} |-> Null]

\* del bookmarks[id]
Without(bm, id) == [x \in (DOMAIN bm) \ {id} |-> bm[x]]

\* bookmarks[id] = snapshot
With(bm, id, snap) == [x \in (DOMAIN bm) \cup {id} |-> IF x = id THEN snap ELSE bm[x]]

\* The button a run was triggered by: kind is "none" (a rerun, or a changed
\* widget), "search", "prev", "next", "bm", "del" or "clear"; suffix tells the
\* top from the bottom pagination block, card and onpage are the card and the
\* page of the key bm_<card>_<page> or del_<card>.
Event(kind, suffix, card, onpage) ==
    [kind |-> kind, suffix |-> suffix, card |-> card, onpage |-> onpage]

NoCard == <<0, 0>>

\* The query of a run that the engine fails on, if any.
FailChoices == {"none", "regions", "ranks", "count", "page"}

\* Mutant of ClampPage: the stored index is used as it is.
ClampPage_Unclamped(stored, mp) == stored

\* `page = min(st.session_state.full_search_page, max_pages - 1)`
ClampPage(stored, mp) == Min(stored, mp - 1)

\* What a run leaves behind: the session state it wrote, whether it ended in
\* st.rerun(), and what it rendered.  A run that ended in st.rerun() leaves
\* the screen to the run that follows it.
RunResult(bm, stored, region, rank, rr, out, tot, pg, rows, wh, fl) ==
    [bookmarks |-> bm, stored |-> stored, region |-> region, rank |-> rank,
     rerun |-> rr, outcome |-> out, total |-> tot, page |-> pg, results |-> rows,
     where |-> wh, failed |-> fl]

\* Mutant of QueryError: the error branch also resets the bookmarks.
QueryError_ResetsBookmarks(bm, stored, region, rnk, wh, fl) ==
    RunResult(NoBookmarks, stored, region, rnk, FALSE, "error", 0, 0, <<>>, wh, fl)

\* `except Exception as e: st.error(...); st.stop()` of the count query and of
\* the page query: the run ends with the error on screen and no result.
QueryError(bm, stored, region, rnk, wh, fl) ==
    RunResult(bm, stored, region, rnk, FALSE, "error", 0, 0, <<>>, wh, fl)

\* Mutant of StoredIndex: "Найти" leaves the stored index as it is.
StoredIndex_KeepsIndex(search_clicked, stored) == stored

\* Mutant of StoredIndex: every run starts from the first page.
StoredIndex_AlwaysZero(search_clicked, stored) == 0

\* `if search_clicked: st.session_state.full_search_page = 0`
StoredIndex(search_clicked, stored) == IF search_clicked THEN 0 ELSE stored

\* pages/07_Поиск_полный.py from the sidebar to the bottom pagination block.
FullRun(ev, fail, tie, inp) ==
    LET delHit == ev.kind = "del" /\ ev.card \in DOMAIN bookmarks
        clearHit == ev.kind = "clear" /\ DOMAIN bookmarks # {}
        \* the two list queries: a failure leaves the sentinel as only option,
        \* and a selectbox whose value is no option falls back to the first
        region_list == {AllRegions} \cup (IF fail = "regions" THEN {} ELSE RegionsOf(table))
        rank_list == {AllRanks} \cup (IF fail = "ranks" THEN {} ELSE RanksOf(table))
        region == IF inp.selected_region \in region_list THEN inp.selected_region ELSE AllRegions
        rnk == IF inp.selected_rank \in rank_list THEN inp.selected_rank ELSE AllRanks
        swallowed == {f \in {"regions", "ranks"} : f = fail}
        search_clicked == ev.kind = "search"
        stored == StoredIndex(search_clicked, full_search_page)
        searching ==
            search_clicked \/ Truthy(inp.query_text) \/ region # AllRegions \/ rnk # AllRanks
        wh == where_clause("full", inp.query_text, region, rnk, inp.year_from, inp.year_to)
        count_raises == fail = "count" \/ ~Parses(wh)
        tot == CountQuery(table, wh)
        tp == total_pages("full", tot)
        mp == max_pages("full", tot)
        pg == ClampPage(stored, mp)
        offset == pg * PAGE_SIZE_FULL
        navHit(suffix) ==
            /\ tp > 1
            /\ ev.suffix = suffix
            /\ \/ ev.kind = "prev" /\ pg # 0
               \/ ev.kind = "next" /\ pg < mp - 1
        navTarget == IF ev.kind = "prev" THEN Max(0, pg - 1) ELSE pg + 1
        rows == PageQuery(table, wh, PAGE_SIZE_FULL, offset, tie)
        bmHit == ev.kind = "bm" /\ ev.onpage = pg /\ ev.card \in {rows[i] : i \in 1..Len(rows)}
        toggled ==
            IF ev.card \in DOMAIN bookmarks THEN Without(bookmarks, ev.card)
            ELSE With(bookmarks, ev.card, Snapshot(RowOf(ev.card)))
        Reran(bm, st) ==
            RunResult(bm, st, region, rnk, TRUE, outcome, total, page, results, where, failed)
        Shown(out, t, p, r, w, fl) ==
            RunResult(bookmarks, stored, region, rnk, FALSE, out, t, p, r, w, fl)
    IN  IF delHit
        THEN RunResult(Without(bookmarks, ev.card), full_search_page, inp.selected_region,
                       inp.selected_rank, TRUE, outcome, total, page, results, where, failed)
        ELSE IF clearHit
        THEN RunResult(NoBookmarks, full_search_page, inp.selected_region, inp.selected_rank,
                       TRUE, outcome, total, page, results, where, failed)
        ELSE IF ~searching THEN Shown("help", 0, 0, <<>>, <<>>, swallowed)
        ELSE IF count_raises THEN QueryError(bookmarks, stored, region, rnk, wh, swallowed \cup {"count"})
        ELSE IF tot = 0 THEN Shown("zero", 0, 0, <<>>, wh, swallowed)
        ELSE IF navHit("top") THEN Reran(bookmarks, navTarget)
        ELSE IF fail = "page" THEN QueryError(bookmarks, stored, region, rnk, wh, swallowed \cup {"page"})
        ELSE IF bmHit THEN Reran(toggled, stored)
        ELSE IF navHit("bottom") THEN Reran(bookmarks, navTarget)
        ELSE Shown("results", tot, pg, rows, wh, swallowed)

\* 06_Поиск.py from the filters to the result cards.
SampleRun(ev, fail, tie, inp) ==
    LET region_list == {AllRegions} \cup (IF fail = "regions" THEN {} ELSE RegionsOf(table))
        rank_list == {AllRanks} \cup (IF fail = "ranks" THEN {} ELSE RanksOf(table))
        region == IF inp.selected_region \in region_list THEN inp.selected_region ELSE AllRegions
        rnk == IF inp.selected_rank \in rank_list THEN inp.selected_rank ELSE AllRanks
        swallowed == {f \in {"regions", "ranks"} : f = fail}
        searching == ev.kind = "search" \/ Truthy(inp.query_text)
        \* `st.session_state.search_page = 0` opens the search branch
        stored == IF searching THEN 0 ELSE search_page
        wh == where_clause("sample", inp.query_text, region, rnk, inp.year_from, inp.year_to)
        count_raises == fail = "count" \/ ~Parses(wh)
        tot == CountQuery(table, wh)
        tp == total_pages("sample", tot)
        mp == max_pages("sample", tot)
        pg == stored
        offset == pg * PAGE_SIZE_SAMPLE
        rows == PageQuery(table, wh, PAGE_SIZE_SAMPLE, offset, tie)
        navHit ==
            /\ tp > 1
            /\ \/ ev.kind = "prev" /\ pg # 0
               \/ ev.kind = "next" /\ pg < mp - 1
        navTarget == IF ev.kind = "prev" THEN Max(0, pg - 1) ELSE pg + 1
        Shown(out, t, p, r, w, fl) ==
            RunResult(bookmarks, stored, region, rnk, FALSE, out, t, p, r, w, fl)
    IN  IF ~searching THEN Shown("help", 0, 0, <<>>, <<>>, swallowed)
        ELSE IF count_raises THEN QueryError(bookmarks, stored, region, rnk, wh, swallowed \cup {"count"})
        ELSE IF tot = 0 THEN Shown("zero", 0, 0, <<>>, wh, swallowed)
        ELSE IF fail = "page" THEN QueryError(bookmarks, stored, region, rnk, wh, swallowed \cup {"page"})
        ELSE IF navHit
        THEN RunResult(bookmarks, navTarget, region, rnk, TRUE, outcome, total, page,
                       results, where, failed)
        ELSE Shown("results", tot, pg, rows, wh, swallowed)

\* The filter widgets' values a run reads.
Widgets(q, region, rnk, yf, yt) ==
    [query_text |-> q, selected_region |-> region, selected_rank |-> rnk,
     year_from |-> yf, year_to |-> yt]

CurrentWidgets == Widgets(query_text, selected_region, selected_rank, year_from, year_to)

ScriptRun(ev, fail, tie, inp) ==
    IF view = "full" THEN FullRun(ev, fail, tie, inp) ELSE SampleRun(ev, fail, tie, inp)

\* The state after a run that read the widget values inp.
Ran(r, inp) ==
    /\ query_text' = inp.query_text
    /\ year_from' = inp.year_from
    /\ year_to' = inp.year_to
    /\ bookmarks' = r.bookmarks
    /\ full_search_page' = (IF view = "full" THEN r.stored ELSE full_search_page)
    /\ search_page' = (IF view = "sample" THEN r.stored ELSE search_page)
    /\ selected_region' = r.region
    /\ selected_rank' = r.rank
    /\ rerun' = r.rerun
    /\ outcome' = r.outcome
    /\ total' = r.total
    /\ page' = r.page
    /\ results' = r.results
    /\ where' = r.where
    /\ failed' = r.failed
    /\ UNCHANGED <<view, table>>
    /\ UNCHANGED <<hlVars, qbVars, pageVars, loadVars, exportVars, classifyVars, indexVars>>

----------------------------------------------------------------------------
(* generate_export_html(bookmarks, search_query) *)

\* The excerpt of one card: the term is marked when both the term and the
\* excerpt are truthy.
ExportExcerpt(bm, search_query) ==
    IF Truthy(search_query) /\ Truthy(bm.story_excerpt)
    THEN ReSubMark(ReCompile(ReEscape(Strip(search_query))), bm.story_excerpt, 1)
    ELSE bm.story_excerpt

\* The <div class="card"> block of one bookmark.
ExportCard(bm, search_query) ==
    LET story_excerpt == ExportExcerpt(bm, search_query)
        url_html ==
            IF Truthy(bm.url)
            THEN <<"<p>", "<a href=">> \o bm.url \o <<" target=_blank>",
                   "Otkryt kartochku", "</a>", "</p>">>
            ELSE <<>>
    IN  <<"<div class=card>", "<h2>">> \o bm.fio \o <<"</h2>", "<p class=meta>", "<span>">>
        \o (IF Truthy(bm.rank) THEN bm.rank ELSE <<"zvanie neizvestno">>)
        \o <<"</span>", "&nbsp;", "<span>">>
        \o (IF Truthy(bm.region) THEN bm.region ELSE <<"region neizvesten">>)
        \o <<"</span>", "</p>", "<p class=excerpt>">>
        \o (IF Truthy(story_excerpt) THEN story_excerpt
            ELSE <<"<em>", "tekst nedostupen", "</em>">>)
        \o <<"</p>">> \o url_html \o <<"</div>">>

\* cards_html: the blocks of bookmarks.values(), in the order of the mapping.
RECURSIVE ExportCards(_, _)
ExportCards(snaps, search_query) ==
    IF snaps = <<>> THEN <<>>
    ELSE ExportCard(Head(snaps), search_query) \o ExportCards(Tail(snaps), search_query)

\* The document; snaps is bookmarks.values().
generate_export_html(snaps, search_query) ==
    <<"<!DOCTYPE html>", "<html>", "<head>", "<meta>", "<title>", "Zakladki", "</title>",
      "<style>", "css", "</style>", "</head>", "<body>", "<h1>", "Zakladki", "</h1>",
      "<p>", "Eksportirovano", "<strong>", "today", "</strong>", "&nbsp;", "Kartochek",
      "<strong>", ToString(Len(snaps)), "</strong>">>
    \o (IF Truthy(search_query)
        THEN <<"&nbsp;", "Poisk", "<strong>">> \o search_query \o <<"</strong>">>
        ELSE <<>>)
    \o <<"</p>">> \o ExportCards(snaps, search_query) \o <<"</body>", "</html>">>

----------------------------------------------------------------------------
(* classify_narrative: the full view's and the batch job's *)

\* A story is taken as what the two functions read of it: its length in
\* characters and the marker phrases its lower-cased text holds.
\*   "ya pomnyu"  a family phrase of both lists ("я помню")
\*   "nash"       "наш", a family phrase of the batch list only
\*   "front"      a battle term of the full view's list ("фронт")
Story(len, phrases) == [len |-> len, phrases |-> phrases]

\* Mutant of classify_narrative: the memoir test comes before the family test.
classify_narrative_MemoirFirst(story) ==
    IF story.len = 0 \/ story.len < 100 THEN "Formulyar"
    ELSE IF story.len > 1000 /\ "front" \in story.phrases THEN "Memuar"
    ELSE IF "ya pomnyu" \in story.phrases /\ story.len > 500 THEN "Semeynaya istoriya"
    ELSE "Smeshannyy"

\* classify_narrative(story) of pages/07_Поиск_полный.py
classify_narrative(story) ==
    IF story.len = 0 \/ story.len < 100 THEN "Formulyar"
    ELSE LET first_person == "ya pomnyu" \in story.phrases
         IN  IF first_person /\ story.len > 500 THEN "Semeynaya istoriya"
             ELSE IF story.len > 1000 /\ "front" \in story.phrases THEN "Memuar"
             ELSE "Smeshannyy"

\* classify_narrative(row) of scripts/prepare_data.py; battles is the battles
\* column of the row.
batch_classify_narrative(story, battles) ==
    LET length == story.len
        first_person == story.phrases \cap {"ya pomnyu", "nash"} # {}
        has_battles == battles # Null /\ Len(battles) > 5
    IN  IF length < 100 THEN "Formulyar"
        ELSE IF first_person /\ length > 500 THEN "Semeynaya istoriya"
        ELSE IF length > 1000 /\ has_battles THEN "Memuar"
        ELSE IF first_person \/ length > 300 THEN "Smeshannyy"
        ELSE "Formulyar"

----------------------------------------------------------------------------
(* make_fts_index(df) *)

\* `ROWS_PER_CHUNK = 100_000`
ROWS_PER_CHUNK == 100000

\* The story column of a card: missing (NaN), or a text of len characters.
NoStory == [present |-> FALSE, len |-> 0]

StoryOf(len) == [present |-> TRUE, len |-> len]

\* The frame is a sequence of runs: n cards in a row with the same story
\* column.  A card is <<k, j>>, the j-th card of the k-th run.
CardRun(story, n) == [story |-> story, n |-> n]

\* The cards from..to of run seg, as they stand in a frame or a file.
Piece(seg, from, to) == [seg |-> seg, from |-> from, to |-> to]

Size(piece) == piece.to - piece.from + 1

RECURSIVE NRows(_)
\* len(frame)
NRows(pieces) ==
    IF pieces = <<>> THEN 0 ELSE Size(Head(pieces)) + NRows(Tail(pieces))

\* `df["story"].notna() & (df["story"].str.len() > 10)`
HasText(story) == story.present /\ story.len > 10

\* `with_text = df[...]`: the rows with text, in the frame's order
WithText(frame) ==
    LET Kept(piece) == HasText(frame[piece.seg].story)
    IN  SelectSeq([k \in 1..Len(frame) |-> Piece(k, 1, frame[k].n)], Kept)

RECURSIVE ILocFrom(_, _, _, _, _)
ILocFrom(pieces, lo, hi, k, start) ==
    IF k > Len(pieces) THEN <<>>
    ELSE LET p == pieces[k]
             a == Max(lo, start)
             b == Min(hi, start + Size(p))
         IN  (IF a < b
              THEN <<Piece(p.seg, p.from + (a - start), p.from + (b - start) - 1)>>
              ELSE <<>>)
             \o ILocFrom(pieces, lo, hi, k + 1, start + Size(p))

\* `frame.iloc[lo:hi]`: the rows at the positions lo .. hi - 1, counted from
\* 0; positions past the end give no row.
ILoc(pieces, lo, hi) == ILocFrom(pieces, lo, hi, 1, 0)

\* `n_chunks = max(1, (n_total + ROWS_PER_CHUNK - 1) // ROWS_PER_CHUNK)`
n_chunks(n_total) == Max(1, (n_total + ROWS_PER_CHUNK - 1) \div ROWS_PER_CHUNK)

RECURSIVE Digits(_)
Digits(i) == IF i < 10 THEN <<i>> ELSE Digits(i \div 10) \o <<i % 10>>

\* `f"{i:03d}"`: the decimal digits of i, padded with zeros to three
Format03d(i) ==
    LET d == Digits(i)
    IN  IF Len(d) >= 3 THEN d ELSE [j \in 1..(3 - Len(d)) |-> 0] \o d

RECURSIVE FileNumber(_)
\* The number a chunk's name ends with.
FileNumber(digits) ==
    IF digits = <<>> THEN 0
    ELSE 10 * FileNumber(SubSeq(digits, 1, Len(digits) - 1)) + digits[Len(digits)]

\* A parquet file of data/full: `soldiers_fts_part{i:03d}.parquet` or the
\* single file soldiers_fts.parquet, and the rows it holds.
ChunkFile(i, rows) == [stem |-> "soldiers_fts_part", digits |-> Format03d(i), rows |-> rows]

LegacyFile(rows) == [stem |-> "soldiers_fts", digits |-> <<>>, rows |-> rows]

\* `FULL_DIR.glob("soldiers_fts_part*.parquet")`
GlobChunks(dir) == {f \in dir : f.stem = "soldiers_fts_part"}

\* Mutant of RemoveOldChunks: the chunks of earlier runs stay.
RemoveOldChunks_KeepsAll(dir) == dir

\* `for old in FULL_DIR.glob("soldiers_fts_part*.parquet"): old.unlink()`
RemoveOldChunks(dir) == dir \ GlobChunks(dir)

\* `chunk.to_parquet(out_path)`: a file of that name is replaced
ToParquet(dir, file) ==
    {f \in dir : ~(f.stem = file.stem /\ f.digits = file.digits)} \cup {file}

----------------------------------------------------------------------------
(* Specification of the highlighter: every call within the bounds *)

\* The state of the parts a specification does not run.
HLIdle ==
    /\ hlText = <<>> /\ hlQuery = <<>> /\ hlMax = 0 /\ hlOut = <<>> /\ hlPc = "idle"

QBIdle ==
    /\ qbView = "full" /\ qbQuery = <<>> /\ qbRegion = <<>> /\ qbRank = <<>>
    /\ qbFrom = 0 /\ qbTo = 0 /\ qbWhere = <<>> /\ qbPc = "idle"

SessionIdle ==
    /\ view = "full" /\ table = <<>> /\ bookmarks = <<>>
    /\ full_search_page = 0 /\ search_page = 0 /\ query_text = <<>>
    /\ selected_region = <<>> /\ selected_rank = <<>> /\ year_from = 0 /\ year_to = 0
    /\ rerun = FALSE /\ outcome = "idle" /\ total = 0 /\ page = 0 /\ results = <<>>
    /\ where = <<>> /\ failed = {}

PagesIdle ==
    /\ pgView = "full" /\ pgTable = <<>> /\ pgWhere = <<>> /\ pgTotal = 0
    /\ pgIndex = 0 /\ pgSum = 0 /\ pgPc = "idle"

LoadIdle ==
    /\ ldCorpus = <<>> /\ ldChunks = <<>> /\ ldLegacy = <<>> /\ ldCache = <<>>
    /\ ldCon = <<>> /\ ldReads = 0 /\ ldCalls = 0
    /\ ldSample = <<>> /\ ldSampleCache = <<>> /\ ldSampleCon = <<>>
    /\ ldSampleReads = 0 /\ ldSampleCalls = 0 /\ ldView = "idle" /\ ldSource = "idle"
    /\ ldQueried = FALSE

ExportIdle ==
    /\ exCards = <<>> /\ exQuery = <<>> /\ exOut = <<>> /\ exPc = "idle"

ClassifyIdle ==
    /\ cnStory = <<>> /\ cnBattles = <<>> /\ cnOnDemand = "idle" /\ cnBatch = "idle"

IndexIdle ==
    ixFrame = <<>> /\ ixWithText = <<>> /\ ixDir = {} /\ ixChunk = 0 /\ ixPc = "idle"

HLInit ==
    /\ hlText \in StringsUpTo(TextAlphabet, MaxTextLen)
    /\ hlQuery \in StringsUpTo(TermAlphabet, MaxTermLen) \cup {None}
    /\ hlMax \in 0..(MaxTextLen + 1)
    /\ hlOut = <<>>
    /\ hlPc = "call"
    /\ QBIdle
    /\ SessionIdle
    /\ PagesIdle
    /\ LoadIdle
    /\ ExportIdle
    /\ ClassifyIdle
    /\ IndexIdle

HLCall ==
    /\ hlPc = "call"
    /\ hlOut' = highlight(hlText, hlQuery, hlMax)
    /\ hlPc' = "ret"
    /\ UNCHANGED <<hlText, hlQuery, hlMax>>
    /\ UNCHANGED <<qbVars, sessionVars, pageVars, loadVars, exportVars, classifyVars, indexVars>>

HLNext == HLCall

SpecHL == HLInit /\ [][HLNext]_vars

----------------------------------------------------------------------------
(* Specification of the query building: every filter request in the bounds *)

\* Characters of a typed search text: letters, a quote, a blank, a LIKE
\* wildcard.
QueryAlphabet == {"a", "A", "'", " ", "_"}
\* Characters of region and rank names, which come from the store.
NameAlphabet == {"a", "'"}

\* The options of a selectbox: the sentinel and the names of the store.
NameOptions == StringsUpTo(NameAlphabet, MaxNameLen) \ {<<>>}

\* The two number_input widgets are independent, each within [1850, 1940].
YearInputs == {YearMin, 1900, YearMax}

QBInit ==
    /\ qbView \in {"sample", "full"}
    /\ qbQuery \in StringsUpTo(QueryAlphabet, MaxTermLen)
    /\ qbRegion \in {AllRegions} \cup NameOptions
    /\ qbRank \in {AllRanks} \cup NameOptions
    /\ qbFrom \in YearInputs
    /\ qbTo \in YearInputs
    /\ qbWhere = <<>>
    /\ qbPc = "input"
    /\ HLIdle
    /\ SessionIdle
    /\ PagesIdle
    /\ LoadIdle
    /\ ExportIdle
    /\ ClassifyIdle
    /\ IndexIdle

QBBuild ==
    /\ qbPc = "input"
    /\ qbWhere' = where_clause(qbView, qbQuery, qbRegion, qbRank, qbFrom, qbTo)
    /\ qbPc' = "built"
    /\ UNCHANGED <<qbView, qbQuery, qbRegion, qbRank, qbFrom, qbTo>>
    /\ UNCHANGED <<hlVars, sessionVars, pageVars, loadVars, exportVars, classifyVars, indexVars>>

QBNext == QBBuild

SpecQB == QBInit /\ [][QBNext]_vars

----------------------------------------------------------------------------
(* Specification of a session on a search view *)

\* Tables of the runs: every kind is present; the kinds that share a name
\* hold one row or RowsPerKind rows each, the third kind one row.
Tables == {t \in [1..NKinds -> {1, RowsPerKind}] : t[NKinds] = 1}

\* What the user types into the search box.
QueryChoices == {<<>>, <<"a">>}

\* The values the user gives to "Год рождения от".
YearFromChoices == {YearMin, 1900}

Init ==
    /\ view \in {"sample", "full"}
    /\ table \in Tables
    /\ bookmarks = NoBookmarks
    /\ full_search_page = 0
    /\ search_page = 0
    /\ query_text = <<>>
    /\ selected_region = AllRegions
    /\ selected_rank = AllRanks
    /\ year_from = YearMin
    /\ year_to = YearMax
    /\ rerun = TRUE
    /\ outcome = "none"
    /\ total = 0
    /\ page = 0
    /\ results = <<>>
    /\ where = <<>>
    /\ failed = {}
    /\ HLIdle
    /\ QBIdle
    /\ PagesIdle
    /\ LoadIdle
    /\ ExportIdle
    /\ ClassifyIdle
    /\ IndexIdle

\* One run: the engine fails on at most one of its queries and orders equal
\* names one of the ways it can.
Run(ev, inp) ==
    \E fail \in FailChoices, tie \in TieOrders : Ran(ScriptRun(ev, fail, tie, inp), inp)

NoButton == Event("none", "", NoCard, 0)

\* The run of the script that a page load or st.rerun() starts.
Rerun ==
    /\ rerun
    /\ Run(NoButton, CurrentWidgets)

\* The user changes one filter widget; the script runs with the new value.
EditQuery ==
    /\ ~rerun
    /\ \E q \in QueryChoices \ {query_text} :
          Run(NoButton, Widgets(q, selected_region, selected_rank, year_from, year_to))

\* The options a selectbox offered in the run that rendered it.
RegionOptions ==
    {AllRegions} \cup (IF "regions" \in failed THEN {} ELSE RegionsOf(table))

RankOptions ==
    {AllRanks} \cup (IF "ranks" \in failed THEN {} ELSE RanksOf(table))

SelectRegion ==
    /\ ~rerun
    /\ \E r \in RegionOptions \ {selected_region} :
          Run(NoButton, Widgets(query_text, r, selected_rank, year_from, year_to))

SelectRank ==
    /\ ~rerun
    /\ \E r \in RankOptions \ {selected_rank} :
          Run(NoButton, Widgets(query_text, selected_region, r, year_from, year_to))

EditYearFrom ==
    /\ ~rerun
    /\ \E y \in YearFromChoices \ {year_from} :
          Run(NoButton, Widgets(query_text, selected_region, selected_rank, y, year_to))

\* "Найти"
ClickSearch ==
    /\ ~rerun
    /\ Run(Event("search", "", NoCard, 0), CurrentWidgets)

\* The pagination block is on screen with more than one page.
PaginationShown == outcome = "results" /\ total_pages(view, total) > 1

\* "← Назад", enabled unless the page shown is the first
ClickPrev ==
    /\ ~rerun
    /\ PaginationShown
    /\ page # 0
    /\ \E suffix \in {"top", "bottom"} : Run(Event("prev", suffix, NoCard, 0), CurrentWidgets)

\* "Вперёд →", enabled unless the page shown is the last reachable one
ClickNext ==
    /\ ~rerun
    /\ PaginationShown
    /\ page < max_pages(view, total) - 1
    /\ \E suffix \in {"top", "bottom"} : Run(Event("next", suffix, NoCard, 0), CurrentWidgets)

\* The bookmark button (key bm_<card>_<page>) of a card on screen.
PressBookmark(card) ==
    /\ ~rerun
    /\ view = "full"
    /\ outcome = "results"
    /\ \E i \in 1..Len(results) : results[i] = card
    /\ Run(Event("bm", "", card, page), CurrentWidgets)

\* The bookmark button of one of the first BookmarkPick cards on screen; the
\* user keeps at most MaxBookmarks bookmarks.
ClickBookmark ==
    \E i \in 1..Min(BookmarkPick, Len(results)) :
        /\ results[i] \in DOMAIN bookmarks \/ Cardinality(DOMAIN bookmarks) < MaxBookmarks
        /\ PressBookmark(results[i])

\* "🗑 Удалить" of a bookmark in the sidebar
ClickDelete ==
    /\ ~rerun
    /\ view = "full"
    /\ \E id \in DOMAIN bookmarks : Run(Event("del", "", id, 0), CurrentWidgets)

\* "Очистить все закладки"
ClickClear ==
    /\ ~rerun
    /\ view = "full"
    /\ DOMAIN bookmarks # {}
    /\ Run(Event("clear", "", NoCard, 0), CurrentWidgets)

Next ==
    \/ Rerun
    \/ EditQuery
    \/ SelectRegion
    \/ SelectRank
    \/ EditYearFrom
    \/ ClickSearch
    \/ ClickPrev
    \/ ClickNext
    \/ ClickBookmark
    \/ ClickDelete
    \/ ClickClear

Spec == Init /\ [][Next]_vars

----------------------------------------------------------------------------
(* Specification of walking through the pages of one result set *)

\* Tables of the walk: each kind holds no row, a few, or PagesBigRows rows,
\* which is more than either view can reach (50 * 20 and 100 * 12).
PageTables == [1..NKinds -> {0, 7, 20, PagesBigRows}]

\* Widget values of the walk.
PageWidgets ==
    {Widgets(q, r, AllRanks, YearMin, YearMax) :
        q \in QueryChoices, r \in {AllRegions, <<"r">>}}

PagesInit ==
    /\ pgView \in {"sample", "full"}
    /\ pgTable \in PageTables
    /\ \E w \in PageWidgets :
          pgWhere = where_clause(pgView, w.query_text, w.selected_region,
                                 w.selected_rank, w.year_from, w.year_to)
    /\ pgTotal = 0
    /\ pgIndex = 0
    /\ pgSum = 0
    /\ pgPc = "count"
    /\ HLIdle
    /\ QBIdle
    /\ SessionIdle
    /\ LoadIdle
    /\ ExportIdle
    /\ ClassifyIdle
    /\ IndexIdle

\* The count query; no page is fetched for an empty result.
PagesCount ==
    /\ pgPc = "count"
    /\ pgTotal' = CountQuery(pgTable, pgWhere)
    /\ pgPc' = (IF pgTotal' = 0 THEN "done" ELSE "fetch")
    /\ UNCHANGED <<pgView, pgTable, pgWhere, pgIndex, pgSum>>
    /\ UNCHANGED <<hlVars, qbVars, sessionVars, loadVars, exportVars, classifyVars, indexVars>>

\* The page query of page index pgIndex, for each index below max_pages.
PagesFetch ==
    /\ pgPc = "fetch"
    /\ \E tie \in TieOrders :
          LET rows == PageQuery(pgTable, pgWhere, PAGE_SIZE(pgView),
                                pgIndex * PAGE_SIZE(pgView), tie)
          IN  pgSum' = pgSum + Len(rows)
    /\ pgIndex' = pgIndex + 1
    /\ pgPc' = (IF pgIndex' >= max_pages(pgView, pgTotal) THEN "done" ELSE "fetch")
    /\ UNCHANGED <<pgView, pgTable, pgWhere, pgTotal>>
    /\ UNCHANGED <<hlVars, qbVars, sessionVars, loadVars, exportVars, classifyVars, indexVars>>

PagesNext == PagesCount \/ PagesFetch

SpecPages == PagesInit /\ [][PagesNext]_vars

----------------------------------------------------------------------------
(* Specification of the loader of the full corpus *)

\* No file of that name.
Absent == <<"absent">>

RECURSIVE Concat(_)
Concat(seqs) == IF seqs = <<>> THEN <<>> ELSE Head(seqs) \o Concat(Tail(seqs))

\* read_parquet over a list of files: the rows of every file, file by file.
ReadParquet(files) == Concat(files)

\* Mutant of LoadFullSearch: only the first chunk that matched is read.
LoadFullSearch_FirstChunkOnly(chunks, legacy) ==
    IF chunks # <<>> THEN ReadParquet(<<chunks[1]>>)
    ELSE IF legacy # Absent THEN ReadParquet(<<legacy>>)
    ELSE None

\* The body of get_full_search_connection: the table soldiers_full of the
\* connection it returns, or None.  chunks are the files matching
\* soldiers_fts_part*.parquet in name order, legacy is soldiers_fts.parquet.
LoadFullSearch(chunks, legacy) ==
    IF chunks # <<>> THEN ReadParquet(chunks)
    ELSE IF legacy # Absent THEN ReadParquet(<<legacy>>)
    ELSE None

\* The rows of a corpus: row i is of kind kinds[i]; its id is the kind and
\* its number among the rows of that kind.
CorpusRows(kinds) ==
    [i \in 1..Len(kinds) |->
        <<kinds[i], Cardinality({j \in 1..i : kinds[j] = kinds[i]})>>]

\* The corpus cut behind the positions in cuts; an empty corpus is written
\* as one chunk without rows (n_chunks = max(1, ...)).
RECURSIVE SplitAt(_, _, _)
SplitAt(rows, cuts, from) ==
    IF rows = <<>> THEN << <<>> >>
    ELSE IF from > Len(rows) THEN <<>>
    ELSE LET later == {c \in cuts : c >= from}
             to == IF later = {} THEN Len(rows)
                   ELSE CHOOSE c \in later : \A d \in later : c <= d
         IN  <<SubSeq(rows, from, to)>> \o SplitAt(rows, cuts, to + 1)

Corpora == UNION {[1..n -> 1..NKinds] : n \in 0..MaxCorpusRows}

\* Mutant of LoadSample: a missing sample file is read all the same and gives
\* an empty table.
LoadSample_NoExistsTest(sample) ==
    IF sample = Absent THEN <<>> ELSE ReadParquet(<<sample>>)

\* The body of get_duckdb_connection: the table soldiers, or None.
LoadSample(sample) ==
    IF sample = Absent THEN None ELSE ReadParquet(<<sample>>)

\* Nothing cached yet.
Unset == <<"unset">>

\* Mutant of CacheResource: the body runs on every call.
CacheResource_Recomputes(cache, value) == [cache |-> value, reads |-> 1]

\* @st.cache_resource: the body runs on the first call, later calls return
\* what the first one returned (None included).
CacheResource(cache, value) ==
    IF cache = Unset THEN [cache |-> value, reads |-> 1]
    ELSE [cache |-> cache, reads |-> 0]

\* Mutant of SelectStore: the sample is preferred to the full corpus.
SelectStore_SampleFirst(con_full, con_sample) ==
    IF con_sample # None THEN "sample"
    ELSE IF con_full # None THEN "full"
    ELSE "nodata"

\* The data source selection of the full view.
SelectStore(con_full, con_sample) ==
    IF con_full # None THEN "full"
    ELSE IF con_sample # None THEN "sample"
    ELSE "nodata"

LoadInit ==
    /\ \/ \E kinds \in Corpora :
             /\ ldCorpus = CorpusRows(kinds)
             /\ \E cuts \in SUBSET (1..(Len(kinds) - 1)) :
                   ldChunks = SplitAt(ldCorpus, cuts, 1)
       \/ ldCorpus = <<>> /\ ldChunks = <<>>
    /\ ldLegacy \in {Absent, <<>>, <<<<1, 1>>>>}
    /\ ldSample \in {Absent, <<<<2, 1>>>>}
    /\ ldCache = Unset
    /\ ldCon = Unset
    /\ ldReads = 0
    /\ ldCalls = 0
    /\ ldSampleCache = Unset
    /\ ldSampleCon = Unset
    /\ ldSampleReads = 0
    /\ ldSampleCalls = 0
    /\ ldView = "none"
    /\ ldSource = "none"
    /\ ldQueried = FALSE
    /\ HLIdle
    /\ QBIdle
    /\ SessionIdle
    /\ PagesIdle
    /\ ExportIdle
    /\ ClassifyIdle
    /\ IndexIdle

\* A call of get_full_search_connection.
CallFull ==
    LET r == CacheResource(ldCache, LoadFullSearch(ldChunks, ldLegacy))
    IN  /\ ldCalls < MaxLoaderCalls
        /\ ldCalls' = ldCalls + 1
        /\ ldCache' = r.cache
        /\ ldReads' = ldReads + r.reads
        /\ ldCon' = r.cache

\* A call of get_duckdb_connection.
CallSample ==
    LET r == CacheResource(ldSampleCache, LoadSample(ldSample))
    IN  /\ ldSampleCalls < MaxLoaderCalls
        /\ ldSampleCalls' = ldSampleCalls + 1
        /\ ldSampleCache' = r.cache
        /\ ldSampleReads' = ldSampleReads + r.reads
        /\ ldSampleCon' = r.cache

\* A call of get_full_search_connection by itself.
GetFullSearchConnection ==
    /\ CallFull
    /\ UNCHANGED <<ldCorpus, ldChunks, ldLegacy, ldSample, ldSampleCache, ldSampleCon,
                   ldSampleReads, ldSampleCalls, ldView, ldSource, ldQueried>>
    /\ UNCHANGED <<hlVars, qbVars, sessionVars, pageVars, exportVars, classifyVars, indexVars>>

\* The start of a run of the full view: both loaders are called, the store is
\* selected, and the run stops before its queries when there is no store.
FullViewStart ==
    /\ CallFull
    /\ CallSample
    /\ ldView' = "full"
    /\ ldSource' = SelectStore(ldCon', ldSampleCon')
    /\ ldQueried' = (ldSource' # "nodata")
    /\ UNCHANGED <<ldCorpus, ldChunks, ldLegacy, ldSample>>
    /\ UNCHANGED <<hlVars, qbVars, sessionVars, pageVars, exportVars, classifyVars, indexVars>>

\* The start of a run of the sample view: its loader is called, and the run
\* stops before its queries when the sample is missing.
SampleViewStart ==
    /\ CallSample
    /\ ldView' = "sample"
    /\ ldSource' = (IF ldSampleCon' # None THEN "sample" ELSE "nodata")
    /\ ldQueried' = (ldSource' # "nodata")
    /\ UNCHANGED <<ldCorpus, ldChunks, ldLegacy, ldSample, ldCache, ldCon, ldReads, ldCalls>>
    /\ UNCHANGED <<hlVars, qbVars, sessionVars, pageVars, exportVars, classifyVars, indexVars>>

LoadNext == GetFullSearchConnection \/ FullViewStart \/ SampleViewStart

SpecLoad == LoadInit /\ [][LoadNext]_vars

----------------------------------------------------------------------------
(* Specification of the export: every call within the bounds *)

\* Characters of the fields of a snapshot: a letter in both cases and a markup
\* character.
FieldAlphabet == {"a", "A", "<"}
\* Characters of the term the export receives, the value of the search box.
ExportTermAlphabet == {"a", " ", "<"}

\* Snapshots with arbitrary content: name and excerpt from the alphabet, rank,
\* region and url all present or all empty.
ProbeSnapshots ==
    {[fio |-> <<f>>, region |-> m, rank |-> m, url |-> m, story_excerpt |-> e] :
        f \in FieldAlphabet, m \in {<<>>, <<"u">>},
        e \in StringsUpTo(FieldAlphabet, MaxExcerptLen)}

\* Snapshots of the records of the store.
StoreSnapshots == {Snapshot(KindRow[k]) : k \in 1..NKinds}

\* bookmarks.values(): nothing, or one arbitrary snapshot before or behind
\* snapshots of the store.
ExportMappings ==
    {<<>>} \cup
    UNION {{<<p>> \o rest, rest \o <<p>>} :
              p \in ProbeSnapshots,
              rest \in UNION {[1..n -> StoreSnapshots] : n \in 0..(MaxExportCards - 1)}}

ExportInit ==
    /\ exCards \in ExportMappings
    /\ exQuery \in StringsUpTo(ExportTermAlphabet, MaxTermLen)
    /\ exOut = <<>>
    /\ exPc = "call"
    /\ HLIdle
    /\ QBIdle
    /\ SessionIdle
    /\ PagesIdle
    /\ LoadIdle
    /\ ClassifyIdle
    /\ IndexIdle

ExportCall ==
    /\ exPc = "call"
    /\ exOut' = generate_export_html(exCards, exQuery)
    /\ exPc' = "ret"
    /\ UNCHANGED <<exCards, exQuery>>
    /\ UNCHANGED <<hlVars, qbVars, sessionVars, pageVars, loadVars, classifyVars, indexVars>>

ExportNext == ExportCall

SpecExport == ExportInit /\ [][ExportNext]_vars

----------------------------------------------------------------------------
(* Specification of the two classifiers on one record *)

\* Lengths on both sides of every threshold.
StoryLengths == {0, 99, 100, 300, 301, 500, 501, 1000, 1001}

\* Phrases need room: a story shorter than 99 characters is taken without.
Stories ==
    {Story(n, ph) : n \in StoryLengths, ph \in SUBSET {"ya pomnyu", "nash", "front"}}
        \ {Story(0, ph) : ph \in (SUBSET {"ya pomnyu", "nash", "front"}) \ {{}}}

\* The battles column: missing, short, or a list of battles.
BattlesValues == {Null, <<"b">>, <<"b", "a", "t", "t", "l", "e">>}

ClassifyInit ==
    /\ cnStory \in Stories
    /\ cnBattles \in BattlesValues
    /\ cnOnDemand = "unset"
    /\ cnBatch = "unset"
    /\ HLIdle
    /\ QBIdle
    /\ SessionIdle
    /\ PagesIdle
    /\ LoadIdle
    /\ ExportIdle
    /\ IndexIdle

\* card_metrics(story) in the full view
ClassifyOnDemand ==
    /\ cnOnDemand = "unset"
    /\ cnOnDemand' = classify_narrative(cnStory)
    /\ UNCHANGED <<cnStory, cnBattles, cnBatch>>
    /\ UNCHANGED <<hlVars, qbVars, sessionVars, pageVars, loadVars, exportVars, indexVars>>

\* df.apply(classify_narrative, axis=1) in the batch job
ClassifyBatch ==
    /\ cnBatch = "unset"
    /\ cnBatch' = batch_classify_narrative(cnStory, cnBattles)
    /\ UNCHANGED <<cnStory, cnBattles, cnOnDemand>>
    /\ UNCHANGED <<hlVars, qbVars, sessionVars, pageVars, loadVars, exportVars, indexVars>>

ClassifyNext == ClassifyOnDemand \/ ClassifyBatch

SpecClassify == ClassifyInit /\ [][ClassifyNext]_vars

----------------------------------------------------------------------------
(* Specification of one run of make_fts_index *)

\* The frame has at most MaxFrameRuns runs of cards.
MaxFrameRuns == 2

\* Stories on both sides of the length test, and a missing one.
FrameStories == {NoStory, StoryOf(10), StoryOf(11)}

\* Run lengths on both sides of the chunk size.
RunLengths == {1, ROWS_PER_CHUNK - 1, ROWS_PER_CHUNK, ROWS_PER_CHUNK + 1}

Frames ==
    UNION {[1..n -> {CardRun(st, m) : st \in FrameStories, m \in RunLengths}] :
              n \in 0..MaxFrameRuns}

\* What an earlier run left in data/full: nothing, one chunk, or chunks up
\* to number 3 beside the single file.  Run 0 stands for that run's cards.
OldDirs ==
    {{},
     {ChunkFile(0, <<Piece(0, 1, 5)>>)},
     {ChunkFile(0, <<Piece(0, 1, 5)>>), ChunkFile(3, <<Piece(0, 6, 9)>>),
      LegacyFile(<<Piece(0, 1, 9)>>)}}

IndexInit ==
    /\ ixFrame \in Frames
    /\ ixWithText = <<>>
    /\ ixDir \in OldDirs
    /\ ixChunk = 0
    /\ ixPc = "filter"
    /\ HLIdle
    /\ QBIdle
    /\ SessionIdle
    /\ PagesIdle
    /\ LoadIdle
    /\ ExportIdle
    /\ ClassifyIdle

IndexFilter ==
    /\ ixPc = "filter"
    /\ ixWithText' = WithText(ixFrame)
    /\ ixPc' = "remove"
    /\ UNCHANGED <<ixFrame, ixDir, ixChunk>>
    /\ UNCHANGED <<hlVars, qbVars, sessionVars, pageVars, loadVars, exportVars, classifyVars>>

IndexRemoveOld ==
    /\ ixPc = "remove"
    /\ ixDir' = RemoveOldChunks(ixDir)
    /\ ixPc' = "write"
    /\ UNCHANGED <<ixFrame, ixWithText, ixChunk>>
    /\ UNCHANGED <<hlVars, qbVars, sessionVars, pageVars, loadVars, exportVars, classifyVars>>

\* One turn of `for i in range(n_chunks)`
IndexWriteChunk ==
    /\ ixPc = "write"
    /\ LET i == ixChunk
           chunk == ILoc(ixWithText, i * ROWS_PER_CHUNK, (i + 1) * ROWS_PER_CHUNK)
       IN  /\ ixDir' = ToParquet(ixDir, ChunkFile(i, chunk))
           /\ ixChunk' = i + 1
           /\ ixPc' = (IF i + 1 < n_chunks(NRows(ixWithText)) THEN "write" ELSE "done")
    /\ UNCHANGED <<ixFrame, ixWithText>>
    /\ UNCHANGED <<hlVars, qbVars, sessionVars, pageVars, loadVars, exportVars, classifyVars>>

IndexNext == IndexFilter \/ IndexRemoveOld \/ IndexWriteChunk

SpecIndex == IndexInit /\ [][IndexNext]_vars

----------------------------------------------------------------------------
(* Reading a highlight result back: the spans wrapped in <mark> *)

\* The set of <<first, last>> (1-based, inclusive, in characters of the text)
\* of the spans that out wraps in <mark>...</mark>.  A "<br>" stands for the
\* newline it replaced; pos counts the characters passed, open is the first
\* character of the span being read.
RECURSIVE MarkSpansFrom(_, _, _, _)
MarkSpansFrom(out, i, pos, open) ==
    IF i > Len(out) THEN {}
    ELSE IF out[i] = "<mark>" THEN MarkSpansFrom(out, i + 1, pos, pos + 1)
    ELSE IF out[i] = "</mark>"
         THEN {<<open, pos>>} \cup MarkSpansFrom(out, i + 1, pos, 0)
    ELSE MarkSpansFrom(out, i + 1, pos + 1, open)

MarkSpans(out) == MarkSpansFrom(out, 1, 0, 0)

Range(s) == {s[i] : i \in 1..Len(s)}

\* A blank term as the claims word it: None, empty or only whitespace.
IsBlankTerm(q) == q = None \/ \A i \in 1..Len(q) : IsSpace(q[i])

\* term occurs in s at index i as a literal character sequence, letter case
\* ignored.
LiteralOccursAt(term, s, i) ==
    /\ i >= 1
    /\ i + Len(term) - 1 <= Len(s)
    /\ \A k \in 1..Len(term) : Lower(s[i + k - 1]) = Lower(term[k])

\* All occurrences of term in s, as spans.
OccurrenceSpans(term, s) ==
    {<<i, i + Len(term) - 1>> : i \in {j \in 1..Len(s) : LiteralOccursAt(term, s, j)}}

\* The occurrences a left-to-right scan takes: an occurrence is taken unless
\* it overlaps one taken before it.
RECURSIVE ScanSpans(_, _, _)
ScanSpans(term, s, i) ==
    IF i > Len(s) THEN {}
    ELSE IF LiteralOccursAt(term, s, i)
         THEN {<<i, i + Len(term) - 1>>} \cup ScanSpans(term, s, i + Len(term))
    ELSE ScanSpans(term, s, i + 1)

----------------------------------------------------------------------------
(* Claims about highlight, checked under SpecHL *)

\* C8: highlight emits no <mark> span for an occurrence of the term that
\* begins at or after position max_chars of the text or extends past it:
\* every marked span ends inside the first max_chars characters.
C8_NoMarkBeyondWindow ==
    hlPc = "ret" => \A sp \in MarkSpans(hlOut) : sp[1] >= 1 /\ sp[2] <= hlMax

\* C8 witness: the term occurs in the text across or behind the truncation
\* boundary and also inside the window; only the inner occurrence is marked.
C8_Witness ==
    /\ hlPc = "ret"
    /\ ~IsBlankTerm(hlQuery)
    /\ \E sp \in OccurrenceSpans(Strip(hlQuery), hlText) : sp[2] > hlMax
    /\ MarkSpans(hlOut) # {}
    /\ \A sp \in MarkSpans(hlOut) : sp[2] <= hlMax

\* C9: with a blank term (None, empty, only whitespace) highlight returns
\* text[:max_chars] with every newline replaced by a line break, no <mark>,
\* followed by the truncation indicator exactly when the text is longer than
\* max_chars.
C9_BlankTermPlainSnippet ==
    (hlPc = "ret" /\ IsBlankTerm(hlQuery)) =>
        LET n == Min(hlMax, Len(hlText))
            body == [i \in 1..n |-> IF hlText[i] = "\n" THEN "<br>" ELSE hlText[i]]
            rest == SubSeq(hlOut, n + 1, Len(hlOut))
        IN  /\ Len(hlOut) >= n
            /\ SubSeq(hlOut, 1, n) = body
            /\ "<mark>" \notin Range(hlOut)
            /\ "</mark>" \notin Range(hlOut)
            /\ IF Len(hlText) > hlMax
               THEN /\ Len(rest) >= 3
                    /\ rest[1] = "<br>"
                    /\ rest[2] = "<small>"
                    /\ rest[Len(rest)] = "</small>"
               ELSE rest = <<>>

\* C9 witness: a whitespace-only term on a truncated text that holds a newline
\* inside the window.
C9_Witness ==
    /\ hlPc = "ret"
    /\ hlQuery # None /\ hlQuery # <<>> /\ IsBlankTerm(hlQuery)
    /\ Len(hlText) > hlMax
    /\ "\n" \in Range(Prefix(hlText, hlMax))
    /\ "<br>" \in Range(SubSeq(hlOut, 1, hlMax))

----------------------------------------------------------------------------
(* Claims about the query building, checked under SpecQB *)

\* C4: in both views every string value interpolated into the WHERE clause
\* (search text, region, rank) has its single quotes doubled, so the value
\* stays inside one closed string literal: the engine reads back exactly the
\* value that was supplied and nothing of it is read as query text.
C4_EveryLiteralStaysClosed ==
    qbPc = "built" =>
        \A k \in 1..Len(qbWhere) :
            HasLiteral(qbWhere[k]) =>
                /\ qbWhere[k].lit = SqlEscape(qbWhere[k].src)
                /\ SqlLiteral(qbWhere[k].lit).ok
                /\ SqlLiteral(qbWhere[k].lit).value = qbWhere[k].src

----------------------------------------------------------------------------
(* Claims about a session on a search view, checked under Spec *)

CeilDiv(a, b) == (a + b - 1) \div b

SetOf(seq) == {seq[i] : i \in 1..Len(seq)}

\* C2: whenever a page of results is fetched, the page index the OFFSET is
\* computed from lies in [0, min(ceil(total / page_size), max_pages) - 1],
\* whatever index the session stores, and the fetch is not empty.
C2_PageIndexInRange ==
    outcome = "results" =>
        /\ 0 <= page
        /\ page <= Min(CeilDiv(total, PAGE_SIZE(view)), MaxPagesCap(view)) - 1
        /\ results # <<>>

\* C2 witness: the full view shows the last page of a result set while the
\* session stores a larger page index.
C2_Witness ==
    /\ view = "full"
    /\ outcome = "results"
    /\ ~rerun
    /\ full_search_page > page
    /\ page = Min(CeilDiv(total, PAGE_SIZE_FULL), MAX_PAGES_FULL) - 1

\* C5: for a fixed predicate and store, a page index shows the same row
\* sequence on every call, and two different page indexes never share a row,
\* also when several matching records have the same fio.
C5_PagesStableAndDisjoint ==
    [][(outcome = "results" /\ outcome' = "results" /\ where' = where) =>
          IF page' = page THEN results' = results
          ELSE SetOf(results') \cap SetOf(results) = {}]_vars

\* C6: every engine failure on a query of a view (region list, rank list,
\* count, page) ends in the visible query-error state.
C6_EveryFailureIsShown ==
    (~rerun /\ failed # {}) => outcome = "error"

\* C7: a run whose count query or page query raised ends in the query-error
\* state with no result rendered, and leaves the bookmarks and the table as
\* they were.
C7_ErrorRunKeepsState ==
    [][(~rerun' /\ outcome' = "error") =>
          /\ results' = <<>>
          /\ bookmarks' = bookmarks
          /\ table' = table]_vars

\* C7 witness: the error state after a failed count or page query, in a
\* session that holds a bookmark.
C7_Witness ==
    /\ outcome = "error"
    /\ ~rerun
    /\ failed \cap {"count", "page"} # {}
    /\ DOMAIN bookmarks # {}

----------------------------------------------------------------------------
(* Claims about the page walk, checked under SpecPages *)

----------------------------------------------------------------------------
(* Claims about the loader, checked under SpecLoad *)

\* The number of rows of each kind: the table a row sequence amounts to.
TableOf(rows) ==
    [k \in 1..NKinds |-> Cardinality({i \in 1..Len(rows) : rows[i][1] = k})]

\* Predicates to compare query results on.
ProbeWheres ==
    {where_clause("full", w.query_text, w.selected_region, w.selected_rank,
                  w.year_from, w.year_to) : w \in PageWidgets}

\* C3: when the corpus is split into K >= 1 chunk files, the table
\* soldiers_full holds every row of every chunk exactly once, so every count
\* and every page query gives what it gives on the unchunked corpus.
C3_ChunksLoadAsOneTable ==
    (ldCalls > 0 /\ ldChunks # <<>>) =>
        /\ ldCon # None
        /\ Len(ldCon) = Len(ldCorpus)
        /\ \A i \in 1..Len(ldCorpus) :
              Cardinality({j \in 1..Len(ldCon) : ldCon[j] = ldCorpus[i]}) = 1
        /\ \A wh \in ProbeWheres :
              /\ CountQuery(TableOf(ldCon), wh) = CountQuery(TableOf(ldCorpus), wh)
              /\ \A tie \in TieOrders :
                    PageQuery(TableOf(ldCon), wh, PAGE_SIZE_FULL, 0, tie)
                        = PageQuery(TableOf(ldCorpus), wh, PAGE_SIZE_FULL, 0, tie)

\* C3 witness: a corpus in more than one chunk, loaded, beside a legacy file
\* with other content.
C3_Witness ==
    /\ ldCalls > 0
    /\ Len(ldChunks) >= 2
    /\ ldLegacy # Absent
    /\ Len(ldCon) = Len(ldCorpus)
    /\ Len(ldCon) > Len(ldChunks[1])

----------------------------------------------------------------------------
(* Further claims about highlight, checked under SpecHL *)

\* The index of the "<small>" of the indicator in out, 0 when there is none.
IndicatorAt(out) ==
    IF \E i \in 1..Len(out) : out[i] = "<small>"
    THEN CHOOSE i \in 1..Len(out) : out[i] = "<small>"
    ELSE 0

\* C11: highlight appends the "shown N of M" indicator exactly when
\* len(text) > max_chars; the indicator then ends the result and states
\* max_chars as the shown count and len(text) as the total.
C11_IndicatorIffTruncated ==
    hlPc = "ret" =>
        LET at == IndicatorAt(hlOut)
        IN  /\ (at # 0) <=> (Len(hlText) > hlMax)
            /\ at # 0 =>
                  /\ at + 6 = Len(hlOut)
                  /\ hlOut[at + 2] = ToString(hlMax)
                  /\ hlOut[at + 4] = ToString(Len(hlText))
                  /\ hlOut[at + 6] = "</small>"

\* C11 witness: a text longer than max_chars came back with a marked term in
\* the window and the indicator stating both numbers.
C11_Witness ==
    /\ hlPc = "ret"
    /\ Len(hlText) > hlMax
    /\ MarkSpans(hlOut) # {}
    /\ IndicatorAt(hlOut) # 0
    /\ hlOut[IndicatorAt(hlOut) + 2] = ToString(hlMax)
    /\ hlOut[IndicatorAt(hlOut) + 4] = ToString(Len(hlText))

\* C12: the only markup in the result of highlight is what highlight adds
\* (<mark>, <br>, the indicator): no markup character of the record text or
\* of the term reaches the result unescaped.
C12_NoLiveMarkupFromInput ==
    hlPc = "ret" => \A i \in 1..Len(hlOut) : hlOut[i] \notin {"<", ">", "&"}

----------------------------------------------------------------------------
(* Claims about the bookmark store, checked under Spec *)

\* What one press of the bookmark button of a card does to a store.
Toggled(bm, card) ==
    IF card \in DOMAIN bm THEN Without(bm, card)
    ELSE With(bm, card, Snapshot(RowOf(card)))

\* C13: bookmark round trip.  Adding a snapshot under an id makes the id a
\* key, removing it makes it absent again, and every press of the bookmark
\* button of a card on screen toggles that card and nothing else, so that two
\* presses on the same card give back the store from before the first press
\* (a stored snapshot is always the snapshot of its record).  A run that ends
\* in the query error is left aside here.
C13_BookmarkRoundTrip ==
    [][/\ \A id \in DOMAIN bookmarks : bookmarks[id] = Snapshot(RowOf(id))
       /\ \A c \in SetOf(results) :
             (PressBookmark(c) /\ outcome' # "error") =>
                /\ bookmarks' = Toggled(bookmarks, c)
                /\ (c \in DOMAIN bookmarks') <=> (c \notin DOMAIN bookmarks)
                /\ Toggled(bookmarks', c) = bookmarks]_vars

----------------------------------------------------------------------------
(* Claims about the export, checked under SpecExport *)

\* The closing tag of an opening tag of the document.
ClosingTag ==
    [t \in {"<html>", "<head>", "<title>", "<style>", "<body>", "<h1>", "<h2>",
            "<p>", "<p class=meta>", "<p class=excerpt>", "<strong>", "<span>",
            "<em>", "<mark>", "<div class=card>", "<a href="} |->
        CASE t = "<html>" -> "</html>"
          [] t = "<head>" -> "</head>"
          [] t = "<title>" -> "</title>"
          [] t = "<style>" -> "</style>"
          [] t = "<body>" -> "</body>"
          [] t = "<h1>" -> "</h1>"
          [] t = "<h2>" -> "</h2>"
          [] t \in {"<p>", "<p class=meta>", "<p class=excerpt>"} -> "</p>"
          [] t = "<strong>" -> "</strong>"
          [] t = "<span>" -> "</span>"
          [] t = "<em>" -> "</em>"
          [] t = "<mark>" -> "</mark>"
          [] t = "<div class=card>" -> "</div>"
          [] t = "<a href=" -> "</a>"]

ClosingTags == {ClosingTag[t] : t \in DOMAIN ClosingTag}

IsTag(tok) == tok \in DOMAIN ClosingTag \/ tok \in ClosingTags

\* The tags of tags from index i on are closed in order, stack being the tags
\* that are open.
RECURSIVE Balanced(_, _, _)
Balanced(tags, i, stack) ==
    IF i > Len(tags) THEN stack = <<>>
    ELSE IF tags[i] \in DOMAIN ClosingTag
         THEN Balanced(tags, i + 1, <<tags[i]>> \o stack)
    ELSE IF stack = <<>> \/ ClosingTag[Head(stack)] # tags[i] THEN FALSE
    ELSE Balanced(tags, i + 1, Tail(stack))

\* A document is well formed when no character of its content is a bare
\* markup character and its tags are closed in order.
WellFormed(doc) ==
    /\ \A i \in 1..Len(doc) : doc[i] \notin {"<", ">", "&"}
    /\ Balanced(SelectSeq(doc, IsTag), 1, <<>>)

\* The number of card blocks of a document.
CardBlocks(doc) == Cardinality({i \in 1..Len(doc) : doc[i] = "<div class=card>"})

\* C14: for every bookmark mapping and snapshot content (an empty excerpt,
\* markup characters in a field) generate_export_html returns a well-formed
\* document with exactly one card block per bookmark.
C14_ExportWellFormedOneBlockEach ==
    exPc = "ret" => WellFormed(exOut) /\ CardBlocks(exOut) = Len(exCards)

\* The content of the i-th <p class="excerpt"> of a document.
RECURSIVE UpTo(_, _, _)
UpTo(doc, i, stop) ==
    IF i > Len(doc) \/ doc[i] = stop THEN <<>> ELSE <<doc[i]>> \o UpTo(doc, i + 1, stop)

ExcerptStarts(doc) == {i \in 1..Len(doc) : doc[i] = "<p class=excerpt>"}

ExcerptOf(doc, n) ==
    LET at == CHOOSE i \in ExcerptStarts(doc) :
                  Cardinality({j \in ExcerptStarts(doc) : j <= i}) = n
    IN  UpTo(doc, at + 1, "</p>")

\* C15: the marks the export places in a snapshot's excerpt are those
\* highlight places for the same excerpt and term; a blank or whitespace-only
\* term adds no mark.
C15_ExportMarksAsHighlighter ==
    exPc = "ret" =>
        \A n \in 1..Len(exCards) :
            LET excerpt == exCards[n].story_excerpt
            IN  Truthy(excerpt) =>
                   /\ MarkSpans(ExcerptOf(exOut, n))
                          = MarkSpans(highlight(excerpt, exQuery, Len(excerpt)))
                   /\ IsBlankTerm(exQuery) => "<mark>" \notin Range(ExcerptOf(exOut, n))

----------------------------------------------------------------------------
(* Further claims about the query building, checked under SpecQB *)

\* The conditions of a kind in a predicate.
CondsOfKind(wh, kind) == SelectSeq(wh, LAMBDA c : c.kind = kind)

\* C16: a birth-year condition is part of the predicate only when the range
\* is narrower than 1850..1940.  With the full span the predicate is the one
\* of the same request without a year filter; otherwise exactly one condition
\* BETWEEN from AND to is added to it.
C16_YearConditionOnlyWhenNarrower ==
    qbPc = "built" =>
        LET years == CondsOfKind(qbWhere, "year")
            others == SelectSeq(qbWhere, LAMBDA c : c.kind # "year")
            unfiltered == where_clause(qbView, qbQuery, qbRegion, qbRank, YearMin, YearMax)
        IN  IF qbFrom = YearMin /\ qbTo = YearMax
            THEN years = <<>> /\ qbWhere = unfiltered
            ELSE /\ Len(years) = 1
                 /\ years[1].from = qbFrom
                 /\ years[1].to = qbTo
                 /\ others = SelectSeq(unfiltered, LAMBDA c : c.kind \in {"ilike", "region", "rank"})

\* C16 witness: only the lower end is inside the span, and the predicate
\* holds the one year condition.
C16_Witness ==
    /\ qbPc = "built"
    /\ qbFrom > YearMin
    /\ qbTo = YearMax
    /\ Len(CondsOfKind(qbWhere, "year")) = 1

\* C17: every filter request that reaches the query building has
\* 1850 <= birth_year_from <= birth_year_to <= 1940.
C17_YearRangeOrdered ==
    qbPc = "built" => YearMin <= qbFrom /\ qbFrom <= qbTo /\ qbTo <= YearMax

\* s holds term as a substring, letter case ignored; NULL holds nothing.
ContainsCI(s, term) ==
    /\ s # Null
    /\ \E i \in 1..(Len(s) + 1) : LiteralOccursAt(term, s, i)

\* Records to try a text condition on.
ProbeRows == {KindRow[k] : k \in 1..NKinds}

\* C18: the search text gives a condition exactly when it is non-blank after
\* trimming, and a record satisfies that condition exactly when its fio or
\* its story holds the trimmed text as a substring, letter case ignored.
C18_TextConditionIsSubstringMatch ==
    qbPc = "built" =>
        LET texts == CondsOfKind(qbWhere, "ilike")
            term == Strip(qbQuery)
        IN  IF \A i \in 1..Len(qbQuery) : IsSpace(qbQuery[i])
            THEN texts = <<>>
            ELSE /\ Len(texts) = 1
                 /\ \A row \in ProbeRows :
                       CondHolds(texts[1], row)
                           <=> (ContainsCI(row.fio, term) \/ ContainsCI(row.story, term))

\* The filters of a request that are active, in the order of the tests.
ActiveFilters ==
    (IF \E i \in 1..Len(qbQuery) : ~IsSpace(qbQuery[i]) THEN <<"ilike">> ELSE <<>>)
    \o (IF qbRegion # AllRegions THEN <<"region">> ELSE <<>>)
    \o (IF qbRank # AllRanks THEN <<"rank">> ELSE <<>>)
    \o (IF qbFrom # YearMin \/ qbTo # YearMax THEN <<"year">> ELSE <<>>)

\* C19: with no active filter the predicate is the neutral one of the view,
\* TRUE in the sample view and "story IS NOT NULL" in the full view;
\* otherwise it is the list, joined by AND, of one condition per active
\* filter and of nothing else.
C19_NeutralPredicateOrActiveConditions ==
    qbPc = "built" =>
        IF ActiveFilters = <<>>
        THEN /\ Len(qbWhere) = 1
             /\ qbWhere[1].kind = (IF qbView = "sample" THEN "true" ELSE "story")
        ELSE /\ Len(qbWhere) = Len(ActiveFilters)
             /\ \A i \in 1..Len(qbWhere) : qbWhere[i].kind = ActiveFilters[i]

\* C19 witness: the full view, nothing filled in, the predicate is
\* "story IS NOT NULL" and leaves out the record without a story.
C19_Witness ==
    /\ qbPc = "built"
    /\ qbView = "full"
    /\ ActiveFilters = <<>>
    /\ qbWhere[1].kind = "story"
    /\ \E row \in ProbeRows : ~RowMatches(qbWhere, row)

----------------------------------------------------------------------------
(* Further claims about the page walk, checked under SpecPages *)

\* The records of a table that satisfy a predicate.
MatchingRows(tbl, wh) ==
    UNION {{<<k, j>> : j \in 1..tbl[k]} :
              k \in {x \in 1..NKinds : RowMatches(wh, KindRow[x])}}

\* C20: the reported total is the number of records that satisfy the whole
\* predicate, whatever the pages hold and however many pages can be reached
\* (it is compared when the count query returned and when the walk ended),
\* and the number of pages is min(ceil(total / page_size), max_pages) with
\* max_pages 50 in the sample view and 100 in the full view.
C20_TotalIsFullCountPagesAreCapped ==
    /\ (pgPc = "done" \/ (pgPc = "fetch" /\ pgIndex = 0)) =>
          pgTotal = Cardinality(MatchingRows(pgTable, pgWhere))
    /\ pgPc \in {"fetch", "done"} =>
          /\ max_pages(pgView, pgTotal)
                = Min(Max(1, CeilDiv(pgTotal, IF pgView = "sample" THEN 20 ELSE 12)),
                      IF pgView = "sample" THEN 50 ELSE 100)
          /\ (pgPc = "done" /\ pgTotal > 0) => pgIndex = max_pages(pgView, pgTotal)

\* C20 witness: more records than the reachable pages hold; the total is the
\* full count and the walk ended at the page ceiling.
C20_Witness ==
    /\ pgPc = "done"
    /\ pgTotal > pgSum
    /\ pgSum > 0
    /\ pgIndex = MaxPagesCap(pgView)

----------------------------------------------------------------------------
(* Further claims about the loaders and the store selection, under SpecLoad *)

\* The files of the full corpus are there, as chunks or as the single file.
FullFilesExist == ldChunks # <<>> \/ ldLegacy # Absent

\* C22: a loader whose files are absent returns None; a run of the full view
\* uses the full corpus whenever its loader returned a connection, the sample
\* only when the full corpus is unavailable, and with neither it ends in the
\* "no data" message before any filter or search query.
C22_StoreSelectionOrder ==
    /\ (ldCalls > 0 /\ ~FullFilesExist) => ldCon = None
    /\ (ldCalls > 0 /\ FullFilesExist) => ldCon # None
    /\ (ldSampleCalls > 0) => (ldSampleCon = None <=> ldSample = Absent)
    /\ ldView = "full" =>
          /\ ldSource = "full" <=> FullFilesExist
          /\ ldSource = "sample" <=> (~FullFilesExist /\ ldSample # Absent)
          /\ ldSource = "nodata" <=> (~FullFilesExist /\ ldSample = Absent)
    /\ ldSource = "nodata" => ~ldQueried

\* C22 witness: a run of the full view fell back to the sample because the
\* full corpus has no file, and went on to its queries.
C22_Witness ==
    /\ ldView = "full"
    /\ ldCon = None
    /\ ldSource = "sample"
    /\ ldSampleCon # None
    /\ ldQueried

----------------------------------------------------------------------------
(* Claims about the narrative classifiers, checked under SpecClassify *)

\* C24: for every story the full view's classify_narrative gives the label
\* the batch job's classify_narrative gives to a record with that story.
C24_OnDemandLabelIsBatchLabel ==
    (cnOnDemand # "unset" /\ cnBatch # "unset") => cnOnDemand = cnBatch

\* C25: the full view's classify_narrative gives one of the four labels by
\* a fixed priority: shorter than 100 characters, Формуляр; else a family
\* phrase and more than 500 characters, Семейная история; else more than
\* 1000 characters and a battle term, Мемуар; else Смешанный.
C25_LabelByPriority ==
    cnOnDemand # "unset" =>
        LET family == "ya pomnyu" \in cnStory.phrases /\ cnStory.len > 500
            memoir == cnStory.len > 1000 /\ "front" \in cnStory.phrases
        IN  /\ cnOnDemand \in {"Formulyar", "Semeynaya istoriya", "Memuar", "Smeshannyy"}
            /\ cnOnDemand = "Formulyar" <=> cnStory.len < 100
            /\ cnOnDemand = "Semeynaya istoriya" <=> (cnStory.len >= 100 /\ family)
            /\ cnOnDemand = "Memuar" <=> (cnStory.len >= 100 /\ ~family /\ memoir)
            /\ cnOnDemand = "Smeshannyy" <=> (cnStory.len >= 100 /\ ~family /\ ~memoir)

\* C25 witness: a story that meets the family and the memoir condition is
\* labelled Семейная история.
C25_Witness ==
    /\ cnStory.len > 1000
    /\ {"ya pomnyu", "front"} \subseteq cnStory.phrases
    /\ cnOnDemand = "Semeynaya istoriya"

----------------------------------------------------------------------------
(* Claims about moving between pages in a session, checked under Spec *)

\* The run that follows a press of "Вперёд →" on the page shown: the button
\* was enabled, the stored index is one more than the page on screen, and the
\* script is about to run again.
AfterNext(vw, stored) ==
    /\ view = vw
    /\ rerun
    /\ outcome = "results"
    /\ page < max_pages(vw, total) - 1
    /\ stored = page + 1

\* The render shows the page after the one on screen, for the same predicate.
ShowsFollowingPage ==
    /\ outcome' = "results"
    /\ page' = page + 1
    /\ where' = where
    /\ total' = total

\* C26: in the sample view, after "Вперёд →" on page p < max_pages - 1 the
\* next render that the engine does not fail shows page p + 1 of the same
\* predicate.
C26_SampleNextShowsFollowingPage ==
    [][(AfterNext("sample", search_page) /\ outcome' # "error") => ShowsFollowingPage]_vars

\* C27: in the full view, after "Вперёд →" on page p < max_pages - 1 the next
\* render that the engine does not fail shows page p + 1 of the same
\* predicate, whatever the predicate set, and not the help text.
C27_FullNextShowsFollowingPage ==
    [][(AfterNext("full", full_search_page) /\ outcome' # "error") => ShowsFollowingPage]_vars

\* C28: in the full view a press of "Найти" sets the stored index to 0, and
\* the result list it shows is page 0.
C28_SearchShowsFirstPage ==
    [][\/ /\ full_search_page' = 0
          /\ outcome' = "results" => page' = 0
       \/ ~(view = "full" /\ ClickSearch)]_vars

\* C28 witness: the full view shows the first page of a browse-all result of
\* several pages, which only a press of "Найти" brings up.
C28_Witness ==
    /\ view = "full"
    /\ outcome = "results"
    /\ ~rerun
    /\ query_text = <<>>
    /\ selected_region = AllRegions
    /\ selected_rank = AllRanks
    /\ total_pages("full", total) > 1
    /\ page = 0
    /\ full_search_page = 0

\* C29: in the full view a change of the search text, the region or the rank
\* leaves the stored index as it was, the list it brings up is page
\* min(stored index, max_pages - 1) of the new result set, and a step that
\* changes the stored index is a press of "Найти", "← Назад" or "Вперёд →".
C29_OnlySearchAndNavigationWriteIndex ==
    [][view = "full" =>
          /\ \/ /\ full_search_page' = full_search_page
                /\ outcome' = "results" =>
                      page' = Min(full_search_page, max_pages("full", total') - 1)
             \/ ~(EditQuery \/ SelectRegion \/ SelectRank)
          /\ full_search_page' # full_search_page =>
                (ClickSearch \/ ClickPrev \/ ClickNext)]_vars

\* C29 witness: the stored index is 1 and the list on screen, brought up by
\* a changed filter, has one page only and is shown at page 0.
C29_Witness ==
    /\ view = "full"
    /\ ~rerun
    /\ outcome = "results"
    /\ full_search_page = 1
    /\ max_pages("full", total) = 1
    /\ page = 0

----------------------------------------------------------------------------
(* Claims about the chunk files, checked under SpecIndex *)

\* The chunk files of the directory, by file number.
ChunkNumbers == {FileNumber(f.digits) : f \in GlobChunks(ixDir)}

ChunkNumbered(i) == CHOOSE f \in GlobChunks(ixDir) : FileNumber(f.digits) = i

\* The rows of the chunk files, read in file-number order.
ChunksInOrder ==
    LET nums == ChunkNumbers
        top == IF nums = {} THEN 0 ELSE CHOOSE m \in nums : \A x \in nums : x <= m
    IN  Concat([i \in 1..(top + 1) |->
                   IF (i - 1) \in nums THEN ChunkNumbered(i - 1).rows ELSE <<>>])

\* Each of the cards 1..n of run k is in the pieces exactly once.
HoldsOnce(pieces, k, n) ==
    LET OfRun(p) == p.seg = k
        ps == SelectSeq(pieces, OfRun)
    IN  /\ \A i \in 1..Len(ps) : 1 <= ps[i].from /\ ps[i].from <= ps[i].to /\ ps[i].to <= n
        /\ \A i, j \in 1..Len(ps) : i < j => (ps[i].to < ps[j].from \/ ps[j].to < ps[i].from)
        /\ NRows(ps) = n

\* C30: after make_fts_index the chunk files are the ones this run wrote,
\* numbered from 0 without a gap, none holds more than 100 000 rows, and read
\* in file-number order they hold every card whose story is present and
\* longer than 10 characters exactly once and no other card.
C30_ChunksHoldCardsWithTextOnce ==
    ixPc = "done" =>
        /\ ChunkNumbers = 0..(ixChunk - 1)
        /\ Cardinality(GlobChunks(ixDir)) = ixChunk
        /\ \A f \in GlobChunks(ixDir) : NRows(f.rows) <= 100000
        /\ \A i \in 1..Len(ChunksInOrder) : ChunksInOrder[i].seg \in 1..Len(ixFrame)
        /\ \A k \in 1..Len(ixFrame) :
              IF ixFrame[k].story.present /\ ixFrame[k].story.len > 10
              THEN HoldsOnce(ChunksInOrder, k, ixFrame[k].n)
              ELSE \A i \in 1..Len(ChunksInOrder) : ChunksInOrder[i].seg # k

\* C30 witness: a run that found the chunks of an earlier run beside the
\* single file, left a run of cards without text out, and wrote a full chunk
\* and a shorter one.
C30_Witness ==
    /\ ixPc = "done"
    /\ \E f \in ixDir : f.stem = "soldiers_fts"
    /\ \E k \in 1..Len(ixFrame) : ~ixFrame[k].story.present
    /\ ChunkNumbers = {0, 1}
    /\ NRows(ChunkNumbered(0).rows) = 100000
    /\ NRows(ChunkNumbered(1).rows) = 1

====
